---- MODULE Spec2Model ----
(***************************************************************************)
(* Verification model of the openclaw-QQ channel gateway.                  *)
(*                                                                         *)
(*   Spec      route-scoped dispatch engine: inbound handler, interrupt    *)
(*             policy, in-flight map, heavy-task offload through the task  *)
(*             units, deliver callback, send queue and preflight.          *)
(*   SpecTask  the task units (enqueueRouteTask) on their own.             *)
(*   SpecAgg   the inbound aggregator (parseInboundMessage window).        *)
(*                                                                         *)
(* Time is abstracted: a timer (sleep, withTimeout, poll) is an action     *)
(* that may fire whenever the code could have reached it; a timestamp      *)
(* compared against a window is a boolean "still inside the window" with   *)
(* an expiry action.                                                       *)
(***************************************************************************)
EXTENDS Integers, Sequences, FiniteSets, TLC

\* ------------------------------------------------------------------ bounds
NumMsgs == 3            \* inbound messages of one run of the dispatch engine
MaxDelivers == 1        \* deliver() calls the agent makes per handler
NumCalls == 2           \* enqueueRouteTask calls of SpecTask
NumAggMsgs == 3         \* inbound messages of SpecAgg
NumCallers == 2         \* sendTextChunks calls sharing the send queue in SpecQueue
NumChunks == 2          \* text chunks of one sendTextChunks call
NumCandidates == 2      \* mediaCandidates of one media item in SpecMedia
MediaTickMs == 15000    \* granularity of time in SpecMedia
MaxMediaClock == 60000  \* last instant of SpecMedia
MaxBumps == 2           \* bumpRouteUsage calls of each bumper in SpecUsage
QuotaTickMs == 3600000  \* granularity of time in SpecQuota (one hour)
MaxQuotaClock == 10800000   \* last instant of SpecQuota (three hours)
MaxImages == 6          \* images sent in SpecQuota
FallbackTickMs == 15000 \* granularity of time in SpecFallback
NumAttempts == 2        \* delivery attempts of the dispatch of SpecTrace
NumTargets == 2         \* automation targets of SpecAuto
MinIdLen == 4           \* shortest user / group id of SpecRoute
MaxIdLen == 5           \* longest user / group id of SpecRoute
MaxGuildPartLen == 2    \* longest guild / channel id of SpecRoute
NumTextChunks == 2      \* text chunks of the payload of SpecPolicy
NumMediaItems == 2      \* media items of the payload of SpecPolicy
NumSendUnits == 3       \* text chunks the send queue handles in SpecLimit
MaxSendText == 1        \* the route's capability limit maxSendText in SpecLimit
NumDispatchBumps == 1   \* dispatches the handler counts in SpecLimit
MaxConnects == 10       \* connect() calls since the last open in SpecReconnect
NumDispatchIds == 3     \* dispatch ids of SpecClear
MaxMsgKeys == 1002      \* distinct message keys arriving in SpecDedup
MaxTicks == 5           \* calls of tick in SpecTick
AutoStartMs == 3600000  \* first instant of SpecAuto: the start of minute 60
AutoTickMs == 15000     \* granularity of time in SpecAuto
MaxAutoClock == 3660000 \* last instant of SpecAuto: the start of minute 61
MaxFallbackClock == 60000   \* last instant of SpecFallback

\* the absent value (undefined / null)
None == [absent |-> TRUE]

Msgs == 1..NumMsgs

\* ----------------------------------------------------------------- routing
\* A route string is kept as its kind and its two id parts, each a sequence
\* of characters, so that normalizeTarget / parseTarget act on characters.
Digits == {"0", "1", "2", "3", "4", "5", "6", "7", "8", "9"}
SafeGuildChars == Digits \cup {"G", "g", "c", "C", "_", ".", "-"}

U10001 == <<"1", "0", "0", "0", "1">>
Guild1 == <<"G", "1">>
Chan1 == <<"c", "1">>

UserRoute == [kind |-> "user", a |-> U10001, b |-> <<>>]
GroupRoute == [kind |-> "group", a |-> U10001, b |-> <<>>]
GuildRoute == [kind |-> "guild", a |-> Guild1, b |-> Chan1]

\* routes the inbound events of the dispatch engine arrive on
Routes == {UserRoute, GuildRoute}

ToLowerChar(c) == IF c = "G" THEN "g" ELSE IF c = "C" THEN "c" ELSE c

ToLower(s) == [i \in 1..Len(s) |-> ToLowerChar(s[i])]

IsDigitString(s) == Len(s) >= 5 /\ Len(s) <= 12 /\ \A i \in 1..Len(s) : s[i] \in Digits

IsSafeGuildPart(s) == Len(s) >= 1 /\ \A i \in 1..Len(s) : s[i] \in SafeGuildChars

\* routing.ts:6-7, 72-74 QQ_ROUTE_PATTERN / isValidQQRoute
isValidQQRoute(r) ==
    \/ r.kind \in {"user", "group"} /\ IsDigitString(r.a) /\ r.b = <<>>
    \/ r.kind = "guild" /\ IsSafeGuildPart(r.a) /\ IsSafeGuildPart(r.b)

\* routing.ts:25-43 normalizeTarget on a value already of the shape kind:id[:id]:
\* the value is lower-cased (v) and v is what the matching branches return.
normalizeTarget(raw) ==
    LET v == [kind |-> raw.kind, a |-> ToLower(raw.a), b |-> ToLower(raw.b)]
    IN IF v.kind \in {"user", "group"} /\ IsDigitString(v.a) /\ v.b = <<>> THEN v
       ELSE IF v.kind = "guild" /\ IsSafeGuildPart(v.a) /\ IsSafeGuildPart(v.b) THEN v
       ELSE raw

RECURSIVE StripLeadingZeros(_)
StripLeadingZeros(s) ==
    IF Len(s) > 1 /\ s[1] = "0" THEN StripLeadingZeros(Tail(s)) ELSE s

\* routing.ts:47-48, 51-52: parseInt(digits, 10) printed back by a template string
parseIntText(s) == StripLeadingZeros(s)

\* routing.ts:45-60 parseTarget: None, or the typed target with its route
parseTarget(raw) ==
    LET target == normalizeTarget(raw)
    IN IF target.kind = "user" /\ IsDigitString(target.a) /\ target.b = <<>>
       THEN [kind |-> "user", id1 |-> parseIntText(target.a), id2 |-> <<>>,
             route |-> [kind |-> "user", a |-> parseIntText(target.a), b |-> <<>>]]
       ELSE IF target.kind = "group" /\ IsDigitString(target.a) /\ target.b = <<>>
       THEN [kind |-> "group", id1 |-> parseIntText(target.a), id2 |-> <<>>,
             route |-> [kind |-> "group", a |-> parseIntText(target.a), b |-> <<>>]]
       ELSE IF target.kind = "guild" /\ IsSafeGuildPart(target.a) /\ IsSafeGuildPart(target.b)
       THEN [kind |-> "guild", id1 |-> target.a, id2 |-> target.b,
             route |-> [kind |-> "guild", a |-> target.a, b |-> target.b]]
       ELSE None

\* outbound/text-sender.ts:57-68 sendToParsedTarget: the protocol action and ids
sendToParsedTarget(target) ==
    IF target.kind = "group"
    THEN [action |-> "send_group_msg", id1 |-> target.id1, id2 |-> <<>>]
    ELSE IF target.kind = "guild"
    THEN [action |-> "send_guild_channel_msg", id1 |-> target.id1, id2 |-> target.id2]
    ELSE [action |-> "send_private_msg", id1 |-> target.id1, id2 |-> <<>>]

\* inbound/session-pipeline.ts:10-35 resolveInboundRouteContext: the route of an
\* inbound event is built from the ids of the event itself
resolveInboundRouteContext(kind, id1, id2) ==
    IF kind = "group" THEN [kind |-> "group", a |-> id1, b |-> <<>>]
    ELSE IF kind = "guild" THEN [kind |-> "guild", a |-> id1, b |-> id2]
    ELSE [kind |-> "user", a |-> id1, b |-> <<>>]


\* --------------------------------------------------------------- variables
VARIABLES
    inbound,                \* the conversation, the kinds of its inbound messages, and
                            \* the deliver calls the agent makes per handler
    cfg,                    \* account config: interruptPolicy, enableErrorNotify
    h,                      \* per inbound message: the handler's closure state
    routeInflightMap,       \* part_007 routeInflightMap: route -> in-flight state
    aborted,                \* <<route, dispatchId>> whose AbortController is aborted
    routeDispatchSeq,       \* part_007 routeDispatchSeq
    routeInboundSeq,        \* part_003 routeInboundSeq
    routeGeneration,        \* client.ts routeGeneration
    routePendingLatestMap,  \* part_007 routePendingLatestMap
    routeLastTimeoutAt,     \* part_007: TRUE while the stamp is inside the degrade window
    routeFileTaskLockUntil, \* part_003: TRUE while the file-task lock is unexpired
    routeLastFallbackAt,    \* part_003: TRUE while the fallback cooldown is running
    runs,                   \* agent runs (dispatchReplyFromConfig) still executing
    sendQueue,              \* delivery.ts sendQueue
    sendQueueRunning,       \* delivery.ts sendQueueRunning
    sent,                   \* messages handed to the protocol client
    cleared,                \* in-flight entries removed: <<route, completing run, removed entry>>
    started,                \* agent runs started: route, dispatchId, path, unaborted predecessor
    routeQueues,            \* task-units.ts routeQueues
    routeInFlight,          \* task-units.ts routeInFlight
    completedTaskState,     \* task-units.ts completedTaskState
    tc,                     \* SpecTask: the enqueueRouteTask calls
    bodyRuns,               \* SpecTask: how often request.run was entered, per task key
    routeAggregation,       \* client.ts routeAggregation
    ag,                     \* SpecAgg: the parseInboundMessage invocations
    aggSleepers,            \* SpecAgg: invocations inside sleep(aggregateWindowMs), in timer order
    qc,                     \* SpecQueue: the callers of enqueueSend and their promises
    qr,                     \* SpecQueue: where the runSendQueue loop stands
    recentMediaSendAttempts, \* delivery.ts recentMediaSendAttempts: keys inside the 45 s window
    md,                     \* SpecMedia: the sendWithRetry calls of one media item
    mediaSends,             \* SpecMedia: protocol sends attempted, per dedup key
    usageFile,              \* session-store.ts usage.json of a route
    ub,                     \* SpecUsage: the bumpRouteUsage calls
    convFile,               \* session-store.ts conversation state file of a route
    iq,                     \* SpecQuota: the calls reading and writing the conversation state
    clock,                  \* SpecQuota: Date.now(), in quarters of the quota window
    imagesAt,               \* SpecQuota: the times at which an image was sent
    fbk,                    \* SpecFallback: the fallback decisions of one route
    tr,                     \* SpecTrace: the delivery attempts of one dispatch and their trace
    au,                     \* SpecAuto: the automation manager: state file, clock, pass
    rt,                     \* SpecRoute: a route string on its way through normalizeTarget / parseTarget
    pol,                    \* SpecPolicy: one outbound payload passing the capability hooks
    lim,                    \* SpecLimit: the sends of one route against its usage limit
    agt,                    \* SpecAgent: one route and the agent ids resolved for it
    svc,                    \* SpecTick: the automation manager service, its timer and its running guard
    rc,                     \* SpecReconnect: the socket, reconnect counter and reconnect timer of OneBotClient
    cl,                     \* SpecClear: one clearRouteInFlight call on an in-flight map
    pm                      \* SpecDedup: the processedMsgIds set of one account

dvars == <<inbound, cfg, h, routeInflightMap, aborted, routeDispatchSeq, routeInboundSeq,
           routePendingLatestMap, routeLastTimeoutAt, routeFileTaskLockUntil,
           routeLastFallbackAt, runs, sendQueue, sendQueueRunning, sent,
           cleared, started>>
tvars == <<routeQueues, routeInFlight, completedTaskState>>
tcvars == <<tc, bodyRuns>>
avars == <<routeAggregation, ag, aggSleepers>>
qvars == <<qc, qr>>
mvars == <<recentMediaSendAttempts, md, mediaSends>>
uvars == <<usageFile, ub>>
ivars == <<convFile, iq, clock, imagesAt>>
yvars == <<fbk, tr, au, rt, pol, lim, agt, svc, rc, cl, pm>>
xvars == <<qvars, mvars, uvars, ivars, yvars>>
vars == <<dvars, tvars, tcvars, avars, xvars, routeGeneration>>

\* ------------------------------------------------------- config (defaults)
\* part_003:1368  routePreemptOldRun !== false
RoutePreemptOldRunBase == TRUE
\* part_003:1378  mediaInterruptPolicy ?? "queue-latest"
MediaInterruptPolicy == "queue-latest"
\* part_003:1983  interruptCoalesceEnabled !== false
InterruptCoalesceEnabled == TRUE
\* part_003:1386  replyAbortOnTimeout !== false
ReplyAbortOnTimeout == TRUE
\* part_003:1400  outboundFallbackOnDrop !== false
OutboundFallbackOnDrop == TRUE
\* part_003:1927  taskMaxRetries ?? 1
TaskMaxRetries == 1
\* part_003:1928  taskMaxConcurrency ?? 1
TaskMaxConcurrency == 1
\* part_003:1929  taskIdempotencyEnabled !== false
TaskIdempotencyEnabled == TRUE

InterruptPolicies == {"preempt", "queue-latest", "adaptive"}

\* kinds of inbound: plain text, text of 800 characters or more, media-bearing
MsgKinds == {"plain", "long", "media"}
\* an inbound the handler's filters stop (part_003:1260-1320)
FilteredKind == "filtered"

\* part_003:1914-1916 shouldDispatchAsChildTask
shouldDispatchAsChildTask(kind) ==
    LET heavyByMedia == kind = "media"
        heavyByLongGen == kind = "long"
    IN heavyByMedia \/ heavyByLongGen

\* part_003:1366 hasInboundMediaLike
hasInboundMediaLike(kind) == kind = "media"

HandlerInit ==
    [pc |-> "idle", route |-> None, kind |-> "none", inboundSeq |-> 0, routeGen |-> 0,
     routePreemptOldRun |-> FALSE, dispatchId |-> 0,
     routeHadDelivered |-> FALSE, routeHadDropped |-> FALSE,
     routeHadFallbackEligibleDrop |-> FALSE, runTimedOut |-> FALSE,
     runSuperseded |-> FALSE, deliverPc |-> "none", delivers |-> 0,
     dropReason |-> "", attempt |-> 0, degraded |-> FALSE, arrivedBehind |-> 0,
     queuedBehind |-> 0]

\* the engine before the first inbound of behaviour b: its config and the
\* inbound messages that are going to arrive
InitDispatch(b) ==
    /\ cfg = [interruptPolicy |-> b.policy, enableErrorNotify |-> b.notify]
    /\ inbound = [route |-> b.route, kinds |-> b.kinds, delivers |-> b.delivers]
    /\ h = [m \in Msgs |-> HandlerInit]
    /\ routeInflightMap = [r \in Routes |-> None]
    /\ aborted = {}
    /\ routeDispatchSeq = [r \in Routes |-> 0]
    /\ routeInboundSeq = [r \in Routes |-> 0]
    /\ routePendingLatestMap = [r \in Routes |-> None]
    /\ routeLastTimeoutAt = [r \in Routes |-> FALSE]
    /\ routeFileTaskLockUntil = [r \in Routes |-> FALSE]
    /\ routeLastFallbackAt = [r \in Routes |-> FALSE]
    /\ runs = {}
    /\ sendQueue = <<>>
    /\ sendQueueRunning = FALSE
    /\ sent = {}
    /\ cleared = {}
    /\ started = {}

InitTaskUnits ==
    /\ routeQueues = [r \in Routes |-> <<>>]
    /\ routeInFlight = [r \in Routes |-> 0]
    /\ completedTaskState = {}


\* ------------------------------------------------- route runtime context
\* part_007:43-47 nextDispatchId: the n of `${route}:${n}:${ts}`
nextDispatchId(r) == routeDispatchSeq[r] + 1

\* part_007:70-72, 82-84 getRouteInFlight / hasRouteInFlight
getRouteInFlight(r) == routeInflightMap[r]
hasRouteInFlight(r) == routeInflightMap[r] # None

\* part_007:49-68 beginRouteInFlight: the map with the new state installed
beginRouteInFlight(map, r, m, did) ==
    [map EXCEPT ![r] = [dispatchId |-> did, msgId |-> m]]

\* part_007:74-80 clearRouteInFlight(route, dispatchId): the map afterwards
\* (dispatchId 0 stands for the missing argument)
clearRouteInFlight(map, r, did) ==
    IF did = 0 THEN [map EXCEPT ![r] = None]
    ELSE IF map[r] = None \/ map[r].dispatchId # did THEN map
    ELSE [map EXCEPT ![r] = None]

\* part_007:86-101 upsertRoutePendingLatest
upsertRoutePendingLatest(map, r, m, seq) ==
    [map EXCEPT ![r] = [msgId |-> m, inboundSeq |-> seq]]

\* part_007:107-113 claimRoutePendingLatest: whether the claim succeeds
claimRoutePendingLatest(map, r, seq) ==
    map[r] # None /\ map[r].inboundSeq = seq

\* part_007:123-126 routeHadRecentTimeout
routeHadRecentTimeout(r) == routeLastTimeoutAt[r]

\* part_003:221-229 isRouteFileTaskLocked
isRouteFileTaskLocked(lock, r) == lock[r]

\* part_003:1374-1377 degradeToQueueLatest
degradeToQueueLatest(r) ==
    cfg.interruptPolicy = "adaptive" /\ routeHadRecentTimeout(r)

\* part_003:1379-1385 routePreemptOldRun
routePreemptOldRun(lock, r, kind) ==
    /\ RoutePreemptOldRunBase
    /\ ~isRouteFileTaskLocked(lock, r)
    /\ cfg.interruptPolicy # "queue-latest"
    /\ ~degradeToQueueLatest(r)
    /\ (~hasInboundMediaLike(kind) \/ MediaInterruptPolicy = "adaptive-preempt")

\* part_003:485-502 assertDispatchCanSend: "" or the DispatchDropError reason
assertDispatchCanSend(r, did, allowMissingInFlight) ==
    LET inflight == getRouteInFlight(r)
    IN IF inflight = None
       THEN (IF allowMissingInFlight THEN "" ELSE "dispatch_id_mismatch")
       ELSE IF inflight.dispatchId # did THEN "dispatch_id_mismatch"
       ELSE IF <<r, did>> \in aborted THEN "dispatch_aborted"
       ELSE ""

\* part_003:621-630 isFallbackEligibleDropReason
isFallbackEligibleDropReason(reason) ==
    reason \notin {"duplicate_text_suppressed", "abort_text_suppressed",
                   "automation_meta_leak_guard", "dispatch_aborted",
                   "dispatch_id_mismatch", "policy_blocked", "quota_exceeded"}

\* part_003:1399-1405 canSendFallbackNow
canSendFallbackNow(r) == OutboundFallbackOnDrop /\ ~routeLastFallbackAt[r]

\* the in-flight dispatch still executing and not aborted, or 0
UnabortedRunning(r) ==
    LET cur == routeInflightMap[r]
    IN IF cur # None /\ <<r, cur.dispatchId>> \notin aborted
          /\ \E x \in runs : x.route = r /\ x.dispatchId = cur.dispatchId
       THEN cur.dispatchId ELSE 0

\* -------------------------------------------------------- inbound handler
\* part_003:1198-1385: the parsed inbound gets its sequence number, a media
\* inbound locks the route, and the interrupt policy is evaluated. The
\* filters (blocked user, group not allowed, slash command, group message
\* without a mention: part_003:1260-1320) come after the sequence number, and
\* the handler of a filtered inbound returns there.
Arrive(m) ==
    /\ h[m].pc = "idle"
    /\ m <= Len(inbound.kinds)
    /\ \A x \in Msgs : x < m => h[x].pc # "idle"
    /\ LET r == inbound.route
           k == inbound.kinds[m]
           lock == IF k = "media" THEN [routeFileTaskLockUntil EXCEPT ![r] = TRUE]
                   ELSE routeFileTaskLockUntil
       IN /\ routeFileTaskLockUntil' = lock
          /\ routeInboundSeq' = [routeInboundSeq EXCEPT ![r] = @ + 1]
          /\ routeGeneration' = [routeGeneration EXCEPT ![r] = @ + 1]
          /\ h' = [h EXCEPT ![m] = [@ EXCEPT
                     !.pc = IF k = FilteredKind THEN "done" ELSE "prepared",
                     !.route = r, !.kind = k,
                     !.inboundSeq = routeInboundSeq[r] + 1,
                     !.routeGen = routeGeneration[r] + 1,
                     !.arrivedBehind = IF hasRouteInFlight(r)
                                       THEN getRouteInFlight(r).dispatchId ELSE 0,
                     !.routePreemptOldRun = routePreemptOldRun(lock, r, k),
                     !.degraded = isRouteFileTaskLocked(lock, r) \/ degradeToQueueLatest(r)]]
    /\ UNCHANGED <<inbound, cfg, routeInflightMap, aborted, routeDispatchSeq,
                   routePendingLatestMap, routeLastTimeoutAt, routeLastFallbackAt, runs,
                   sendQueue, sendQueueRunning, sent, cleared, started, tvars, tcvars, xvars, avars>>

\* part_003:2047-2056 and 2089-2096: beginRouteInFlight, abort of the previous
\* in-flight, start of the agent run of the direct path
BeginDirect(m) ==
    LET r == h[m].route
        did == nextDispatchId(r)
        previous == getRouteInFlight(r)
    IN /\ routeDispatchSeq' = [routeDispatchSeq EXCEPT ![r] = did]
       /\ routeInflightMap' = beginRouteInFlight(routeInflightMap, r, m, did)
       /\ aborted' = IF previous # None /\ previous.dispatchId # did
                     THEN aborted \cup {<<r, previous.dispatchId>>} ELSE aborted
       /\ started' = started \cup {[route |-> r, dispatchId |-> did, msg |-> m,
                                    path |-> "direct",
                                    over |-> IF UnabortedRunning(r) # 0
                                                /\ <<r, UnabortedRunning(r)>> \notin aborted'
                                             THEN UnabortedRunning(r) ELSE 0]}
       /\ runs' = runs \cup {[route |-> r, dispatchId |-> did, msg |-> m, wait |-> "awaited"]}
       /\ h' = [h EXCEPT ![m] = [@ EXCEPT !.pc = "run", !.dispatchId = did]]

\* part_003:1977-2005, 2025-2028: stale route generation, then the in-flight read and
\* the branch taken: queue as pending-latest, preempt and coalesce, or coalesce
Decide(m) ==
    LET r == h[m].route
        existingInFlight == getRouteInFlight(r)
    IN /\ h[m].pc = "prepared"
       /\ ~shouldDispatchAsChildTask(h[m].kind)
       /\ IF r.kind = "user" /\ routeGeneration[r] # h[m].routeGen
          THEN /\ h' = [h EXCEPT ![m] = [@ EXCEPT !.pc = "done",
                                                  !.dropReason = "route_generation_stale"]]
               /\ UNCHANGED <<routePendingLatestMap, aborted>>
          ELSE IF existingInFlight # None /\ ~h[m].routePreemptOldRun
          THEN /\ routePendingLatestMap' =
                      upsertRoutePendingLatest(routePendingLatestMap, r, m, h[m].inboundSeq)
               /\ h' = [h EXCEPT ![m] = [@ EXCEPT !.pc = "queued",
                             !.queuedBehind = existingInFlight.dispatchId]]
               /\ UNCHANGED aborted
          ELSE IF existingInFlight # None
          THEN /\ aborted' = IF InterruptCoalesceEnabled
                             THEN aborted \cup {<<r, existingInFlight.dispatchId>>}
                             ELSE aborted
               /\ h' = [h EXCEPT ![m] = [@ EXCEPT !.pc = "coalescePreempt"]]
               /\ UNCHANGED routePendingLatestMap
          ELSE /\ h' = [h EXCEPT ![m] = [@ EXCEPT !.pc = "coalesceFirst"]]
               /\ UNCHANGED <<routePendingLatestMap, aborted>>
    /\ UNCHANGED <<inbound, cfg, routeInflightMap, routeDispatchSeq, routeInboundSeq,
                   routeGeneration, routeLastTimeoutAt, routeFileTaskLockUntil,
                   routeLastFallbackAt, runs, sendQueue, sendQueueRunning, sent, cleared,
                   started, tvars, tcvars, xvars, avars>>

\* part_003:2010-2024: the poll loop ends (route idle, or the wait deadline
\* passed while it is still busy) and the pending entry is claimed or lost.
\* The deadline is at least twice replyRunTimeoutMs away, so a direct
\* dispatch still awaiting its agent run has hit its own timeout before it.
QueueResume(m, deadlinePassed) ==
    LET r == h[m].route
    IN /\ h[m].pc = "queued"
       /\ IF deadlinePassed
          THEN hasRouteInFlight(r) /\ h[getRouteInFlight(r).msgId].pc # "run"
          ELSE ~hasRouteInFlight(r)
       /\ IF claimRoutePendingLatest(routePendingLatestMap, r, h[m].inboundSeq)
          THEN /\ routePendingLatestMap' = [routePendingLatestMap EXCEPT ![r] = None]
               /\ BeginDirect(m)
          ELSE /\ h' = [h EXCEPT ![m] = [@ EXCEPT !.pc = "done",
                          !.dropReason = "queued_superseded_by_newer_inbound"]]
               /\ UNCHANGED <<routePendingLatestMap, routeDispatchSeq, routeInflightMap,
                              aborted, runs, started>>
    /\ UNCHANGED <<inbound, cfg, routeInboundSeq, routeGeneration, routeLastTimeoutAt,
                   routeFileTaskLockUntil, routeLastFallbackAt, sendQueue,
                   sendQueueRunning, sent, cleared, tvars, tcvars, xvars, avars>>

\* part_003:2029-2045: the coalescing sleep ends; a newer inbound sequence
\* on the route makes this invocation return
CoalesceWake(m) ==
    LET r == h[m].route
    IN /\ h[m].pc \in {"coalescePreempt", "coalesceFirst"}
       /\ IF routeInboundSeq[r] # h[m].inboundSeq
          THEN /\ h' = [h EXCEPT ![m] = [@ EXCEPT !.pc = "done",
                          !.dropReason = IF h[m].pc = "coalescePreempt"
                                         THEN "coalesce_superseded_after_preempt"
                                         ELSE "merged_into_newer_inbound"]]
               /\ UNCHANGED <<routeDispatchSeq, routeInflightMap, aborted, runs, started>>
          ELSE BeginDirect(m)
    /\ UNCHANGED <<inbound, cfg, routeInboundSeq, routeGeneration, routePendingLatestMap,
                   routeLastTimeoutAt, routeFileTaskLockUntil, routeLastFallbackAt,
                   sendQueue, sendQueueRunning, sent, cleared, tvars, tcvars, xvars, avars>>

\* ------------------------------------------------------ deliver callback
\* part_003:1407-1425: the entry of deliver: the dispatch must still be the
\* route's in-flight, the route must parse, and the parsed target must be
\* the bound route
CanDeliver(map, hm) ==
    LET inflight == map[hm.route]
        target == parseTarget(hm.route)
    IN /\ hm.dispatchId = 0 \/ (inflight # None /\ inflight.dispatchId = hm.dispatchId)
       /\ target # None
       /\ target.route = hm.route

\* what the protocol client is asked to send, with the dispatch's standing
\* at that moment
SentRecord(m, kind) ==
    LET r == h[m].route
        did == h[m].dispatchId
        inflight == getRouteInFlight(r)
    IN [msg |-> m, route |-> r, dispatchId |-> did, kind |-> kind,
        protocol |-> sendToParsedTarget(parseTarget(r)),
        timedOut |-> h[m].runTimedOut,
        wasAborted |-> <<r, did>> \in aborted,
        wasSuperseded |-> inflight # None /\ inflight.dispatchId # did]

\* part_003:1702-1751: what is left of deliver once enqueueSend returned:
\* the fallback text on an eligible drop, sent through sendWithRetry with no
\* preflight unless another dispatch is the route's in-flight (or none is)
TailWants(hm) ==
    /\ ~hm.routeHadDelivered
    /\ hm.routeHadDropped
    /\ hm.routeHadFallbackEligibleDrop
    /\ canSendFallbackNow(hm.route)

TailMismatch(hm) ==
    LET inflight == getRouteInFlight(hm.route)
    IN hm.dispatchId # 0 /\ (inflight = None \/ inflight.dispatchId # hm.dispatchId)

TailSends(hm, fb) == TailWants(hm) /\ ~TailMismatch(hm) /\ fb = "ok"

TailRecord(hm, fb) ==
    [hm EXCEPT !.deliverPc = "none",
               !.routeHadDelivered = @ \/ TailSends(hm, fb),
               !.routeHadDropped = @ \/ (TailWants(hm) /\ TailMismatch(hm))]

\* part_003:1407-1751 with delivery.ts:100-103: one call of deliver. The
\* text chunk is handed to enqueueSend; the caller that finds the queue
\* idle runs it and returns when it has drained, any other caller returns
\* at once and goes through the rest of deliver before its chunk is sent.
\* (fb: what the protocol does with a fallback text)
DeliverCall(map, hm, fb) ==
    IF ~CanDeliver(map, hm)
    THEN [hm |-> hm, push |-> FALSE, fallback |-> FALSE]
    ELSE IF ~sendQueueRunning
    THEN [hm |-> [hm EXCEPT !.deliverPc = "runner"], push |-> TRUE, fallback |-> FALSE]
    ELSE [hm |-> TailRecord(hm, fb), push |-> TRUE, fallback |-> TailSends(hm, fb)]

DeliverEffects(m, res, kind) ==
    /\ sendQueue' = IF res.push THEN Append(sendQueue, [msg |-> m, kind |-> kind])
                    ELSE sendQueue
    /\ sendQueueRunning' = (sendQueueRunning \/ res.push)
    /\ sent' = IF res.fallback THEN sent \cup {SentRecord(m, "fallback")} ELSE sent
    /\ routeLastFallbackAt' = IF res.fallback
                              THEN [routeLastFallbackAt EXCEPT ![h[m].route] = TRUE]
                              ELSE routeLastFallbackAt

\* the agent run the handler awaits calls the reply-deliver callback
AgentDeliver(m, fb) ==
    LET res == DeliverCall(routeInflightMap, [h[m] EXCEPT !.delivers = @ + 1], fb)
    IN /\ \E x \in runs : x.msg = m /\ x.wait = "awaited"
       /\ h[m].deliverPc = "none"
       /\ h[m].delivers < inbound.delivers
       /\ h' = [h EXCEPT ![m] = res.hm]
       /\ DeliverEffects(m, res, "reply")
       /\ UNCHANGED <<inbound, cfg, routeInflightMap, aborted, routeDispatchSeq,
                      routeInboundSeq, routeGeneration, routePendingLatestMap,
                      routeLastTimeoutAt, routeFileTaskLockUntil, runs, cleared, started,
                      tvars, tcvars, xvars, avars>>

\* part_003:1443-1596 sendTextChunk as the queued task of
\* text-sender.ts:15-20: the handler record after the task ran
TaskRecord(hm, outcome) ==
    LET did == hm.dispatchId
        reason == IF did # 0 THEN assertDispatchCanSend(hm.route, did, TRUE) ELSE ""
    IN IF reason # ""
       THEN [hm EXCEPT !.routeHadDropped = TRUE,
                       !.routeHadFallbackEligibleDrop =
                           @ \/ isFallbackEligibleDropReason(reason)]
       ELSE IF outcome = "ok"
       THEN [hm EXCEPT !.routeHadDelivered = TRUE]
       ELSE [hm EXCEPT !.routeHadDropped = TRUE, !.routeHadFallbackEligibleDrop = TRUE]

TaskSends(hm, outcome) ==
    /\ hm.dispatchId = 0 \/ assertDispatchCanSend(hm.route, hm.dispatchId, TRUE) = ""
    /\ outcome = "ok"

\* delivery.ts:74-98 runSendQueue: the loop takes the head task and runs
\* it (outcome: what the protocol send does); when the queue is drained
\* the loop ends and the deliver that ran it goes on to its fallback check
SendExec(outcome, fb) ==
    /\ sendQueueRunning
    /\ sendQueue # <<>>
    /\ LET t == Head(sendQueue)
           m == t.msg
           drained == Tail(sendQueue) = <<>>
           rm == CHOOSE x \in Msgs : h[x].deliverPc = "runner"
           h1 == [h EXCEPT ![m] = TaskRecord(@, outcome)]
           taskSent == IF TaskSends(h[m], outcome) THEN {SentRecord(m, t.kind)} ELSE {}
           tailSent == IF drained /\ TailSends(h1[rm], fb)
                       THEN {SentRecord(rm, "fallback")} ELSE {}
       IN /\ sendQueue' = Tail(sendQueue)
          /\ sendQueueRunning' = ~drained
          /\ sent' = sent \cup taskSent \cup tailSent
          /\ h' = IF drained THEN [h1 EXCEPT ![rm] = TailRecord(@, fb)] ELSE h1
          /\ routeLastFallbackAt' = IF tailSent # {}
                                    THEN [routeLastFallbackAt EXCEPT ![h[rm].route] = TRUE]
                                    ELSE routeLastFallbackAt
    /\ UNCHANGED <<inbound, cfg, routeInflightMap, aborted, routeDispatchSeq,
                   routeInboundSeq, routeGeneration, routePendingLatestMap,
                   routeLastTimeoutAt, routeFileTaskLockUntil, runs, cleared, started,
                   tvars, tcvars, xvars, avars>>

\* ---------------------------------------------- end of a direct dispatch
\* the in-flight entry a clearRouteInFlight(route, did) removes, logged with
\* the agent run whose completion issued the call
ClearedBy(r, runDid, did) ==
    IF clearRouteInFlight(routeInflightMap, r, did) # routeInflightMap
    THEN cleared \cup {<<r, runDid, routeInflightMap[r].dispatchId>>}
    ELSE cleared

\* part_003:2197-2202: the finally block of the direct path
FinallyPending(m) ==
    LET r == h[m].route
        latestPending == routePendingLatestMap[r]
    IN IF latestPending # None /\ latestPending.inboundSeq <= h[m].inboundSeq
       THEN [routePendingLatestMap EXCEPT ![r] = None]
       ELSE routePendingLatestMap

\* part_003:2095-2132, 2197-2202: dispatchReplyFromConfig resolved in time
DirectRunOk(m) ==
    LET r == h[m].route
        did == h[m].dispatchId
        inflight == getRouteInFlight(r)
        superseded == inflight = None \/ inflight.dispatchId # did
    IN /\ h[m].pc = "run"
       /\ h[m].deliverPc = "none"
       /\ \E x \in runs : x.msg = m /\ x.wait = "awaited"
       /\ runs' = {x \in runs : x.msg # m}
       /\ h' = [h EXCEPT ![m] = [@ EXCEPT
                  !.pc = "done", !.runSuperseded = superseded,
                  !.dropReason = IF superseded THEN "dispatch_id_mismatch" ELSE ""]]
       /\ routeInflightMap' = clearRouteInFlight(routeInflightMap, r, did)
       /\ cleared' = ClearedBy(r, did, did)
       /\ routePendingLatestMap' = FinallyPending(m)
       /\ UNCHANGED <<inbound, cfg, aborted, routeDispatchSeq, routeInboundSeq,
                      routeGeneration, routeLastTimeoutAt, routeFileTaskLockUntil,
                      routeLastFallbackAt, sendQueue, sendQueueRunning, sent, started,
                      tvars, tcvars, xvars, avars>>

\* part_003:2095-2110, 2133-2163: the run threw, or withTimeout fired first
\* (onTimeout: runTimedOut, markRouteDispatchTimeout, abort); the catch
\* block up to and including the error-notify deliver
DirectRunFail(m, timedOut, fb) ==
    LET r == h[m].route
        did == h[m].dispatchId
        inflight == getRouteInFlight(r)
        superseded == inflight = None \/ inflight.dispatchId # did
        hm == [h[m] EXCEPT
                 !.pc = "catchFallback", !.runTimedOut = timedOut,
                 !.runSuperseded = superseded,
                 !.dropReason = IF timedOut THEN "dispatch_timeout"
                                ELSE IF superseded THEN "dispatch_id_mismatch"
                                ELSE "dispatch_error"]
        res == IF cfg.enableErrorNotify /\ ~superseded
               THEN DeliverCall(routeInflightMap, hm, fb)
               ELSE [hm |-> hm, push |-> FALSE, fallback |-> FALSE]
    IN /\ h[m].pc = "run"
       /\ h[m].deliverPc = "none"
       /\ \E x \in runs : x.msg = m /\ x.wait = "awaited"
       /\ runs' = IF timedOut /\ ~ReplyAbortOnTimeout
                  THEN {IF x.msg = m THEN [x EXCEPT !.wait = "detached"] ELSE x : x \in runs}
                  ELSE {x \in runs : x.msg # m}
       /\ routeLastTimeoutAt' = IF timedOut THEN [routeLastTimeoutAt EXCEPT ![r] = TRUE]
                                ELSE routeLastTimeoutAt
       /\ aborted' = IF timedOut /\ ReplyAbortOnTimeout
                     THEN aborted \cup {<<r, did>>} ELSE aborted
       /\ h' = [h EXCEPT ![m] = res.hm]
       /\ DeliverEffects(m, res, "notify")
       /\ UNCHANGED <<inbound, cfg, routeInflightMap, routeDispatchSeq, routeInboundSeq,
                      routeGeneration, routePendingLatestMap, routeFileTaskLockUntil,
                      cleared, started, tvars, tcvars, xvars, avars>>

\* part_003:2164-2202: the catch-block fallback, sent through sendWithRetry
\* with no preflight to parseTarget(route), then the finally block
CatchFinish(m, fb) ==
    LET r == h[m].route
        did == h[m].dispatchId
        wantFallback == /\ ~h[m].routeHadDelivered
                        /\ ~h[m].runSuperseded
                        /\ (h[m].runTimedOut \/ h[m].routeHadFallbackEligibleDrop)
                        /\ canSendFallbackNow(r)
                        /\ parseTarget(r) # None
    IN /\ h[m].pc = "catchFallback"
       /\ h[m].deliverPc = "none"
       /\ IF wantFallback /\ fb = "ok"
          THEN /\ sent' = sent \cup {SentRecord(m, "fallback-catch")}
               /\ routeLastFallbackAt' = [routeLastFallbackAt EXCEPT ![r] = TRUE]
               /\ h' = [h EXCEPT ![m] = [@ EXCEPT !.pc = "done", !.routeHadDelivered = TRUE]]
          ELSE /\ h' = [h EXCEPT ![m] = [@ EXCEPT !.pc = "done"]]
               /\ UNCHANGED <<sent, routeLastFallbackAt>>
       /\ routeInflightMap' = clearRouteInFlight(routeInflightMap, r, did)
       /\ cleared' = ClearedBy(r, did, did)
       /\ routePendingLatestMap' = FinallyPending(m)
       /\ UNCHANGED <<inbound, cfg, aborted, routeDispatchSeq, routeInboundSeq,
                      routeGeneration, routeLastTimeoutAt, routeFileTaskLockUntil, runs,
                      sendQueue, sendQueueRunning, started, tvars, tcvars, xvars, avars>>

\* ------------------------------------------------------ heavy-task path
\* task-units.ts:67-70 makeTaskKey: the digest of the four joined fields,
\* kept as the tuple it is computed from
makeTaskKey(route, msgId, taskKind, payloadSummary) ==
    <<route, msgId, taskKind, payloadSummary>>

\* part_003:1923 taskKind
taskKindOf(kind) == IF kind = "media" THEN "heavy_media" ELSE "heavy_long_generation"

HandlerTaskKey(m) == makeTaskKey(h[m].route, m, taskKindOf(h[m].kind), h[m].kind)

\* task-units.ts:125-127: a completed record of the key inside 24 hours
TaskDone(key) == \E c \in completedTaskState : c.key = key

\* handlers after handler m became rec and the queued job of handler next
\* (0: none) was started by scheduleByRoute
HWith(m, rec, next) ==
    [x \in Msgs |-> IF x = m THEN rec
                    ELSE IF x = next THEN [h[x] EXCEPT !.pc = "taskAttempt"]
                    ELSE h[x]]

\* part_003:1917-1971 with task-units.ts:114-145 and 82-112: the heavy
\* inbound is handed to enqueueRouteTask and the handler returns
HeavyEnqueue(m) ==
    LET r == h[m].route
        cap == TaskMaxConcurrency
        current == routeInFlight[r]
    IN /\ h[m].pc = "prepared"
       /\ shouldDispatchAsChildTask(h[m].kind)
       /\ IF TaskIdempotencyEnabled /\ TaskDone(HandlerTaskKey(m))
          THEN /\ h' = [h EXCEPT ![m] = [@ EXCEPT !.pc = "done", !.dropReason = "deduped"]]
               /\ UNCHANGED <<routeInFlight, routeQueues>>
          ELSE IF current < cap
          THEN /\ routeInFlight' = [routeInFlight EXCEPT ![r] = current + 1]
               /\ h' = [h EXCEPT ![m] = [@ EXCEPT !.pc = "taskAttempt"]]
               /\ UNCHANGED routeQueues
          ELSE /\ routeQueues' = [routeQueues EXCEPT ![r] = Append(@, m)]
               /\ h' = [h EXCEPT ![m] = [@ EXCEPT !.pc = "taskQueued"]]
               /\ UNCHANGED routeInFlight
       /\ UNCHANGED <<inbound, cfg, routeInflightMap, aborted, routeDispatchSeq,
                      routeInboundSeq, routeGeneration, routePendingLatestMap,
                      routeLastTimeoutAt, routeFileTaskLockUntil, routeLastFallbackAt,
                      runs, sendQueue, sendQueueRunning, sent, cleared, started,
                      completedTaskState, tcvars, xvars, avars>>

\* part_003:1931-1945: request.run(attempt): beginRouteInFlight (its
\* `previous` is not looked at), the shared dispatchId is overwritten, and
\* the agent run starts
HeavyRunStart(m) ==
    LET r == h[m].route
        did == nextDispatchId(r)
    IN /\ h[m].pc = "taskAttempt"
       /\ routeDispatchSeq' = [routeDispatchSeq EXCEPT ![r] = did]
       /\ routeInflightMap' = beginRouteInFlight(routeInflightMap, r, m, did)
       /\ started' = started \cup {[route |-> r, dispatchId |-> did, msg |-> m,
                                    path |-> IF h[m].attempt = 0 THEN "heavy" ELSE "retry",
                                    over |-> UnabortedRunning(r)]}
       /\ runs' = runs \cup {[route |-> r, dispatchId |-> did, msg |-> m, wait |-> "awaited"]}
       /\ h' = [h EXCEPT ![m] = [@ EXCEPT !.pc = "taskRunning", !.dispatchId = did]]
       /\ UNCHANGED <<inbound, cfg, aborted, routeInboundSeq, routeGeneration,
                      routePendingLatestMap, routeLastTimeoutAt, routeFileTaskLockUntil,
                      routeLastFallbackAt, sendQueue, sendQueueRunning, sent, cleared,
                      tvars, tcvars, xvars, avars>>

\* task-units.ts:157-218 around part_003:1931-1968: one attempt ends.
\*   "ok", "error": the agent run ended; run's finally clears the in-flight
\*   "innerTimeout": qq_dispatch_child_task fired; run's finally clears
\*   "outerTimeout": qq_task_unit fired while run is still inside its try
\* A failure below taskMaxRetries starts the next attempt; the terminal one
\* records the key, calls onFailed (error-notify deliver) and frees the slot.
HeavyAttemptEnd(m, how, fb) ==
    LET r == h[m].route
        x == CHOOSE y \in runs : y.msg = m /\ y.wait = "awaited"
        did == h[m].dispatchId
        terminal == h[m].attempt >= TaskMaxRetries
        finished == how = "ok" \/ terminal
        status == IF how = "ok" THEN "succeeded"
                  ELSE IF how = "error" THEN "failed" ELSE "timeout"
        map == IF how = "outerTimeout" THEN routeInflightMap
               ELSE clearRouteInFlight(routeInflightMap, r, did)
        now == IF routeInFlight[r] - 1 > 0 THEN routeInFlight[r] - 1 ELSE 0
        q == routeQueues[r]
        next == IF finished /\ q # <<>> /\ now < TaskMaxConcurrency THEN Head(q) ELSE 0
        hm == IF finished
              THEN [h[m] EXCEPT !.pc = "done",
                                !.dropReason = IF how = "ok" THEN "" ELSE status]
              ELSE [h[m] EXCEPT !.pc = "taskAttempt", !.attempt = @ + 1]
        res == IF how # "ok" /\ terminal /\ cfg.enableErrorNotify
               THEN DeliverCall(map, hm, fb)
               ELSE [hm |-> hm, push |-> FALSE, fallback |-> FALSE]
    IN /\ h[m].pc = "taskRunning"
       /\ h[m].deliverPc = "none"
       /\ \E y \in runs : y.msg = m /\ y.wait = "awaited"
       /\ runs' = IF how \in {"ok", "error"} THEN runs \ {x}
                  ELSE (runs \ {x}) \cup
                       {[x EXCEPT !.wait = IF how = "innerTimeout" THEN "detached"
                                           ELSE "pending"]}
       /\ routeInflightMap' = map
       /\ cleared' = IF how = "outerTimeout" THEN cleared ELSE ClearedBy(r, x.dispatchId, did)
       /\ completedTaskState' = IF finished
                                THEN completedTaskState \cup
                                     {[key |-> HandlerTaskKey(m), status |-> status]}
                                ELSE completedTaskState
       /\ routeInFlight' = IF finished
                           THEN [routeInFlight EXCEPT ![r] = IF next # 0 THEN now + 1 ELSE now]
                           ELSE routeInFlight
       /\ routeQueues' = IF finished /\ q # <<>>
                         THEN [routeQueues EXCEPT ![r] =
                                  IF next # 0 THEN Tail(q) ELSE Append(Tail(q), Head(q))]
                         ELSE routeQueues
       /\ h' = HWith(m, res.hm, next)
       /\ DeliverEffects(m, res, "notify")
       /\ UNCHANGED <<inbound, cfg, aborted, routeDispatchSeq, routeInboundSeq,
                      routeGeneration, routePendingLatestMap, routeLastTimeoutAt,
                      routeFileTaskLockUntil, started, tcvars, xvars, avars>>

\* part_003:1944-1955: an attempt the task unit gave up on leaves its try:
\* the agent run ended (agentEnded) or qq_dispatch_child_task fired; its
\* finally calls clearRouteInFlight with the dispatchId the closure holds now
HeavyLateFinally(x, agentEnded) ==
    LET r == x.route
        did == h[x.msg].dispatchId
    IN /\ x \in runs
       /\ x.wait = "pending"
       /\ runs' = IF agentEnded THEN runs \ {x}
                  ELSE (runs \ {x}) \cup {[x EXCEPT !.wait = "detached"]}
       /\ routeInflightMap' = clearRouteInFlight(routeInflightMap, r, did)
       /\ cleared' = ClearedBy(r, x.dispatchId, did)
       /\ UNCHANGED <<inbound, cfg, h, aborted, routeDispatchSeq, routeInboundSeq,
                      routeGeneration, routePendingLatestMap, routeLastTimeoutAt,
                      routeFileTaskLockUntil, routeLastFallbackAt, sendQueue,
                      sendQueueRunning, sent, started, tvars, tcvars, xvars, avars>>

\* ------------------------------------------------------ passage of time
\* enough time passes on a route for the degrade window (part_007
\* routeHadRecentTimeout), the file-task lock (part_003:221-229) and the
\* fallback cooldown (part_003:1399-1405) to run out
TimePasses(r) ==
    /\ routeLastTimeoutAt[r] \/ routeFileTaskLockUntil[r] \/ routeLastFallbackAt[r]
    /\ routeLastTimeoutAt' = [routeLastTimeoutAt EXCEPT ![r] = FALSE]
    /\ routeFileTaskLockUntil' = [routeFileTaskLockUntil EXCEPT ![r] = FALSE]
    /\ routeLastFallbackAt' = [routeLastFallbackAt EXCEPT ![r] = FALSE]
    /\ UNCHANGED <<inbound, cfg, h, routeInflightMap, aborted, routeDispatchSeq,
                   routeInboundSeq, routeGeneration, routePendingLatestMap, runs,
                   sendQueue, sendQueueRunning, sent, cleared, started, tvars, tcvars, xvars, avars>>

\* ------------------------------------------------- the dispatch engine
InitIdleTask == tc = <<>> /\ bodyRuns = <<>>
InitIdleAgg == routeAggregation = <<>> /\ ag = <<>> /\ aggSleepers = <<>>
InitIdleQueue == qc = <<>> /\ qr = <<>>
InitIdleMedia == recentMediaSendAttempts = {} /\ md = <<>> /\ mediaSends = <<>>
InitIdleUsage == usageFile = <<>> /\ ub = <<>>
InitIdleQuota == convFile = <<>> /\ iq = <<>> /\ clock = 0 /\ imagesAt = <<>>
InitIdleFallback == fbk = <<>>
InitIdleTrace == tr = <<>>
InitIdleAuto == au = <<>>
InitIdleRoute == rt = <<>>
InitIdlePolicy == pol = <<>>
InitIdleLimit == lim = <<>>
InitIdleAgent == agt = <<>>
InitIdleTick == svc = <<>>
InitIdleReconnect == rc = <<>>
InitIdleClear == cl = <<>>
InitIdleDedup == pm = <<>>
InitIdleMore == InitIdleFallback /\ InitIdleTrace /\ InitIdleAuto /\ InitIdleRoute /\ InitIdlePolicy /\ InitIdleLimit /\ InitIdleAgent /\ InitIdleTick /\ InitIdleReconnect /\ InitIdleClear /\ InitIdleDedup
InitIdleOthers ==
    InitIdleQueue /\ InitIdleMedia /\ InitIdleUsage /\ InitIdleQuota /\ InitIdleMore

InitEngine(b) ==
    /\ InitDispatch(b)
    /\ InitTaskUnits
    /\ routeGeneration = [r \in Routes |-> 0]
    /\ InitIdleTask
    /\ InitIdleAgg
    /\ InitIdleOthers

SendOutcomes == {"ok", "failed"}
AttemptOutcomes == {"ok", "error", "innerTimeout", "outerTimeout"}

Next ==
    \/ \E m \in Msgs : Arrive(m)
    \/ \E m \in Msgs : Decide(m)
    \/ \E m \in Msgs, d \in BOOLEAN : QueueResume(m, d)
    \/ \E m \in Msgs : CoalesceWake(m)
    \/ \E m \in Msgs, fb \in SendOutcomes : AgentDeliver(m, fb)
    \/ \E o \in SendOutcomes, fb \in SendOutcomes : SendExec(o, fb)
    \/ \E m \in Msgs : DirectRunOk(m)
    \/ \E m \in Msgs, t \in BOOLEAN, fb \in SendOutcomes : DirectRunFail(m, t, fb)
    \/ \E m \in Msgs, fb \in SendOutcomes : CatchFinish(m, fb)
    \/ \E m \in Msgs : HeavyEnqueue(m)
    \/ \E m \in Msgs : HeavyRunStart(m)
    \/ \E m \in Msgs, o \in AttemptOutcomes, fb \in SendOutcomes : HeavyAttemptEnd(m, o, fb)
    \/ \E x \in runs, e \in BOOLEAN : HeavyLateFinally(x, e)
    \/ \E r \in Routes : TimePasses(r)

\* The behaviours explored: the account config, the conversation, the
\* inbound messages in arrival order, and the deliver calls each agent run
\* makes.  One inbound of any kind; a plain inbound followed by a second
\* one; a running dispatch with two inbounds arriving behind it.
Behaviour(p, n, r, ks, d) ==
    [policy |-> p, notify |-> n, route |-> r, kinds |-> ks, delivers |-> d]

BehavioursOne ==
    {Behaviour(p, n, r, <<k>>, MaxDelivers) :
        p \in InterruptPolicies, n \in BOOLEAN, r \in Routes, k \in MsgKinds}

BehavioursTwo ==
    {Behaviour(p, n, r, <<"plain", "plain">>, MaxDelivers) :
        p \in InterruptPolicies, n \in BOOLEAN, r \in Routes}
    \cup {Behaviour(p, n, UserRoute, <<"plain", k>>, 0) :
        p \in InterruptPolicies, n \in BOOLEAN, k \in {"long", "media"}}

BehavioursThree ==
    {Behaviour(p, FALSE, r, <<"plain", "plain", k>>, 0) :
        p \in InterruptPolicies, r \in Routes, k \in {"plain", "long"}}

\* an accepted inbound followed by one the filters stop
BehavioursFiltered ==
    {Behaviour(p, FALSE, r, <<"plain", FilteredKind>>, MaxDelivers) :
        p \in InterruptPolicies, r \in Routes}

Behaviours ==
    BehavioursOne \cup BehavioursTwo \cup BehavioursThree \cup BehavioursFiltered

Init == \E b \in Behaviours : InitEngine(b)

Spec == Init /\ [][Next]_vars

\* ------------------------------------------------ claims on the engine
\* C1: two agent runs of one route never execute at the same time unless
\* the older one has been aborted, whichever path started them.
C1_OneRunPerRoute ==
    \A x \in runs, y \in runs :
        (x.route = y.route /\ x.dispatchId < y.dispatchId)
            => <<x.route, x.dispatchId>> \in aborted

\* C2: no queued send of a dispatch that a newer inbound preempted (its
\* abort handle is aborted) or superseded (another dispatch id is the
\* route's in-flight) reaches the protocol.
C2_NoSendAfterPreempt ==
    \A s \in sent :
        (s.kind \in {"reply", "notify"} /\ s.dispatchId # 0 /\ ~s.timedOut)
            => (~s.wasAborted /\ ~s.wasSuperseded)

\* C3: the completion of a dispatch never removes the in-flight entry of a
\* different, newer dispatch of the route.
C3_ClearOnlyOwn ==
    \A c \in cleared : c[3] = c[2]

\* C6: every message sent for a dispatch bound to route A goes to the
\* conversation whose inbounds are bound to route A.
C6_RouteIsolation ==
    \A s \in sent :
        resolveInboundRouteContext(
            IF s.protocol.action = "send_private_msg" THEN "user"
            ELSE IF s.protocol.action = "send_group_msg" THEN "group" ELSE "guild",
            s.protocol.id1, s.protocol.id2) = s.route

\* C7: a direct dispatch whose agent made a reply or failed ends with
\* exactly one of: reply delivered, a fallback (or error) text, clean
\* supersede with a drop reason.
Terminated(m) ==
    /\ h[m].pc = "done"
    /\ h[m].dispatchId # 0
    /\ h[m].deliverPc = "none"
    /\ \A i \in 1..Len(sendQueue) : sendQueue[i].msg # m
    /\ \A x \in runs : x.msg # m

ReplyDelivered(m) == \E s \in sent : s.msg = m /\ s.kind = "reply"
FallbackSent(m) ==
    \E s \in sent : s.msg = m /\ s.kind \in {"fallback", "fallback-catch", "notify"}
CleanSupersede(m) == h[m].runSuperseded /\ h[m].dropReason = "dispatch_id_mismatch"

C7_ExactlyOneOutcome ==
    \A m \in Msgs :
        (/\ Terminated(m)
         /\ h[m].kind = "plain"
         /\ h[m].delivers > 0 \/ h[m].dropReason \in {"dispatch_error", "dispatch_timeout"})
            => \/ ReplyDelivered(m) /\ ~FallbackSent(m) /\ ~CleanSupersede(m)
               \/ ~ReplyDelivered(m) /\ FallbackSent(m) /\ ~CleanSupersede(m)
               \/ ~ReplyDelivered(m) /\ ~FallbackSent(m) /\ CleanSupersede(m)

\* C8: under preempt, no agent run of a new inbound starts while the
\* dispatch of an earlier inbound is still running on the route unaborted.
C8_PreemptAbortsFirst ==
    \A s \in started :
        cfg.interruptPolicy = "preempt"
            => ~\E o \in started : /\ o.route = s.route
                                   /\ o.dispatchId = s.over
                                   /\ o.msg # s.msg

\* C9: under queue-latest an inbound that arrives while a dispatch is
\* running starts no agent run before that dispatch has ended, and of two
\* such inbounds queued behind the same dispatch the older one never
\* starts a dispatch.
C9_OnlyNewestQueuedRuns ==
    cfg.interruptPolicy = "queue-latest" =>
        /\ \A s \in started :
              h[s.msg].arrivedBehind # 0
                  => ~\E o \in started : /\ o.route = s.route
                                         /\ o.dispatchId = s.over
                                         /\ o.msg # s.msg
        /\ \A x \in Msgs, y \in Msgs :
              (/\ h[x].queuedBehind # 0
               /\ h[x].arrivedBehind = h[x].queuedBehind
               /\ h[y].arrivedBehind = h[x].queuedBehind
               /\ h[x].queuedBehind = h[y].queuedBehind
               /\ h[x].inboundSeq < h[y].inboundSeq)
                  => h[x].dispatchId = 0

\* C10: under adaptive, an inbound that finds the route inside the degrade
\* window or file-task locked starts no agent run while the dispatch of an
\* earlier inbound is still running unaborted; it waits as pending-latest.
C10_DegradedInboundWaits ==
    \A s \in started :
        (cfg.interruptPolicy = "adaptive" /\ h[s.msg].degraded)
            => ~\E o \in started : /\ o.route = s.route
                                   /\ o.dispatchId = s.over
                                   /\ o.msg # s.msg

\* C11: with replyAbortOnTimeout true, an agent run that outlived its
\* runtime bound (the timeout fired and the run was left behind) has its
\* cancellation handle aborted, on the heavy-task path as on the direct one.
C11_TimeoutAbortsHandle ==
    ReplyAbortOnTimeout =>
        \A x \in runs : x.wait # "awaited" => <<x.route, x.dispatchId>> \in aborted

\* the fixed fallback text "处理中断，请再发一次。" was sent for handler m
FallbackTextSent(m) ==
    \E s \in sent : s.msg = m /\ s.kind \in {"fallback", "fallback-catch"}

\* C22: a direct dispatch whose agent run timed out, with error notification
\* enabled, not superseded, a route that parses back to itself and no send
\* refused by the protocol, has sent its timeout notice by the time it has
\* terminated.
TimeoutNoticeSent(m) == \E s \in sent : s.msg = m /\ s.kind = "notify"

C22_TimeoutNoticeSent ==
    \A m \in Msgs :
        (/\ Terminated(m)
         /\ h[m].kind = "plain"
         /\ h[m].runTimedOut
         /\ cfg.enableErrorNotify
         /\ ~h[m].runSuperseded
         /\ CanDeliver([r \in Routes |-> [dispatchId |-> h[m].dispatchId]], h[m])
         /\ ~h[m].routeHadFallbackEligibleDrop)
            => TimeoutNoticeSent(m)

\* every inbound of the behaviour has arrived and its handler has returned
Settled == \A m \in 1..Len(inbound.kinds) : h[m].pc = "done"

\* C29: once every handler has returned, an inbound discarded as merged or
\* superseded in the coalescing window (merged_into_newer_inbound,
\* coalesce_superseded_after_preempt) has a newer inbound of its route that
\* started an agent dispatch.
C29_NewestOfBurstDispatched ==
    Settled =>
        \A m \in Msgs :
            h[m].dropReason \in {"merged_into_newer_inbound",
                                 "coalesce_superseded_after_preempt"}
                => \E s \in started : /\ s.route = h[m].route
                                      /\ h[s.msg].inboundSeq > h[m].inboundSeq

\* the step starts the dispatch of an inbound newer than the one whose
\* dispatch is the in-flight of route r
StartedByNewer(r) ==
    \E s \in started' \ started :
        /\ s.route = r
        /\ h[s.msg].inboundSeq > h[routeInflightMap[r].msgId].inboundSeq

\* C30: under queue-latest no step that starts the dispatch of a newer
\* inbound aborts the dispatch that is running unaborted on the route.
C30_QueueLatestNeverAborts ==
    [][cfg.interruptPolicy = "queue-latest" =>
          \A r \in Routes :
              (UnabortedRunning(r) # 0 /\ <<r, UnabortedRunning(r)>> \in aborted')
                  => ~StartedByNewer(r)]_vars

\* C20: no dispatch has both a successfully delivered reply and a fallback
\* text.
C20_FallbackOnlyWithoutDelivery ==
    \A m \in Msgs : ~(ReplyDelivered(m) /\ FallbackTextSent(m))

\* ------------------------------------------------------------ task units
\* SpecTask: enqueueRouteTask (task-units.ts) called NumCalls times on one
\* route with requests that differ at most in msgId.
Calls == 1..NumCalls
TaskMsgIds == {1, 2}
TaskKeys == {makeTaskKey(UserRoute, i, "heavy_long_generation", "long") : i \in TaskMsgIds}

\* bodies: request.run promises of the call started and not yet settled;
\* timeouts: attempts ended by the qq_task_unit timeout; onFailed: the
\* status onFailed was invoked with; replayLine: the lifecycle line the
\* idempotency short-circuit persisted; succeeded: a request.run of the call
\* resolved; record: the terminal status persistTaskLifecycle wrote;
\* onFailedCalls: invocations of request.onFailed
CallInit == [pc |-> "idle", key |-> None, attempt |-> 0, deduped |-> FALSE, ran |-> FALSE,
             bodies |-> 0, timeouts |-> 0, onFailed |-> "none", replayLine |-> None,
             succeeded |-> FALSE, record |-> "none", onFailedCalls |-> 0]

\* task-units.ts:129-140: the lifecycle line of the short-circuit, written
\* from the completed record `done`
ReplayLine(done) ==
    [status |-> done.status,
     errorReason |-> IF done.status = "failed" \/ done.status = "timeout"
                     THEN "idempotent_replay_skipped" ELSE "undefined"]

InitTask ==
    /\ InitDispatch(Behaviour("preempt", FALSE, UserRoute, <<>>, 0))
    /\ InitTaskUnits
    /\ routeGeneration = [r \in Routes |-> 0]
    /\ tc = [c \in Calls |-> CallInit]
    /\ bodyRuns = [k \in TaskKeys |-> 0]
    /\ InitIdleAgg
    /\ InitIdleOthers

\* task-units.ts:114-157, 220 and 82-112: enqueueRouteTask up to its return:
\* the idempotency check against completedTaskState, then scheduleByRoute,
\* which starts the job if the route has a free slot and queues it if not
TaskEnqueue(c, i) ==
    LET key == makeTaskKey(UserRoute, i, "heavy_long_generation", "long")
        r == UserRoute
        cap == TaskMaxConcurrency
        current == routeInFlight[r]
    IN /\ tc[c].pc = "idle"
       /\ \A d \in Calls : d < c => tc[d].pc # "idle"
       /\ IF TaskIdempotencyEnabled /\ TaskDone(key)
          THEN /\ \E done \in {d \in completedTaskState : d.key = key} :
                    tc' = [tc EXCEPT ![c] = [@ EXCEPT !.pc = "done", !.key = key,
                                                      !.deduped = TRUE,
                                                      !.replayLine = ReplayLine(done)]]
               /\ UNCHANGED <<routeInFlight, routeQueues>>
          ELSE IF current < cap
          THEN /\ routeInFlight' = [routeInFlight EXCEPT ![r] = current + 1]
               /\ tc' = [tc EXCEPT ![c] = [@ EXCEPT !.pc = "attempt", !.key = key]]
               /\ UNCHANGED routeQueues
          ELSE /\ routeQueues' = [routeQueues EXCEPT ![r] = Append(@, c)]
               /\ tc' = [tc EXCEPT ![c] = [@ EXCEPT !.pc = "queued", !.key = key]]
               /\ UNCHANGED routeInFlight
       /\ UNCHANGED <<dvars, xvars, routeGeneration, completedTaskState, bodyRuns, avars>>

\* task-units.ts:159-173: the attempt loop enters request.run(attempt)
TaskRunStart(c) ==
    /\ tc[c].pc = "attempt"
    /\ tc' = [tc EXCEPT ![c] = [@ EXCEPT !.pc = "running", !.ran = TRUE,
                                         !.bodies = @ + 1]]
    /\ bodyRuns' = [bodyRuns EXCEPT ![tc[c].key] = @ + 1]
    /\ UNCHANGED <<dvars, xvars, routeGeneration, tvars, avars>>

\* task-units.ts:172-217 and 89-96: request.run resolved ("ok"), rejected
\* ("error") or withTimeout fired ("timeout", part_006:9-19: the race is
\* lost by request.run, whose promise stays unsettled); success and the
\* terminal failure record the key in completedTaskState, the terminal
\* failure calls onFailed, and both free the route's slot, which starts the
\* next queued job. persisted = FALSE: the persistTaskLifecycle write of the
\* outcome (53-65, called at 178 and 199) rejects; after a resolved run that
\* lands in the catch block as a failed attempt, in the catch block it
\* leaves the job before completedTaskState.set and onFailed
TaskAttemptEnd(c, how, persisted) ==
    LET r == UserRoute
        terminal == tc[c].attempt >= TaskMaxRetries
        finished == (how = "ok" /\ persisted) \/ terminal
        status == IF how = "ok" /\ persisted THEN "succeeded"
                  ELSE IF how = "timeout" THEN "timeout" ELSE "failed"
        recorded == finished /\ (how = "ok" \/ persisted)
        now == IF routeInFlight[r] - 1 > 0 THEN routeInFlight[r] - 1 ELSE 0
        q == routeQueues[r]
        next == IF finished /\ q # <<>> /\ now < TaskMaxConcurrency THEN Head(q) ELSE 0
        settled == [tc[c] EXCEPT
                      !.bodies = IF how = "timeout" THEN @ ELSE @ - 1,
                      !.timeouts = IF how = "timeout" THEN @ + 1 ELSE @,
                      !.onFailed = IF status # "succeeded" /\ terminal /\ recorded
                                   THEN status ELSE @,
                      !.onFailedCalls = IF status # "succeeded" /\ terminal /\ recorded
                                        THEN @ + 1 ELSE @,
                      !.succeeded = @ \/ how = "ok",
                      !.record = IF recorded THEN status ELSE @]
        rec == IF finished THEN [settled EXCEPT !.pc = "done"]
               ELSE [settled EXCEPT !.pc = "attempt", !.attempt = @ + 1]
    IN /\ tc[c].pc = "running"
       /\ persisted \/ how = "ok" \/ terminal
       /\ tc' = [x \in Calls |-> IF x = c THEN rec
                                 ELSE IF x = next THEN [tc[x] EXCEPT !.pc = "attempt"]
                                 ELSE tc[x]]
       /\ completedTaskState' = IF recorded
                                THEN completedTaskState \cup
                                     {[key |-> tc[c].key, status |-> status]}
                                ELSE completedTaskState
       /\ routeInFlight' = IF finished
                           THEN [routeInFlight EXCEPT ![r] = IF next # 0 THEN now + 1 ELSE now]
                           ELSE routeInFlight
       /\ routeQueues' = IF finished /\ q # <<>>
                         THEN [routeQueues EXCEPT ![r] =
                                  IF next # 0 THEN Tail(q) ELSE Append(Tail(q), Head(q))]
                         ELSE routeQueues
       /\ UNCHANGED <<dvars, xvars, routeGeneration, bodyRuns, avars>>

\* part_006:9-19: a request.run promise that lost the race against the
\* timeout settles later; nothing is waiting for it
TaskBodySettle(c) ==
    /\ tc[c].bodies > (IF tc[c].pc = "running" THEN 1 ELSE 0)
    /\ tc' = [tc EXCEPT ![c] = [@ EXCEPT !.bodies = @ - 1]]
    /\ UNCHANGED <<dvars, xvars, routeGeneration, tvars, bodyRuns, avars>>

NextTask ==
    \/ \E c \in Calls, i \in TaskMsgIds : TaskEnqueue(c, i)
    \/ \E c \in Calls : TaskRunStart(c)
    \/ \E c \in Calls, how \in {"ok", "error", "timeout"}, persisted \in BOOLEAN :
           TaskAttemptEnd(c, how, persisted)
    \/ \E c \in Calls : TaskBodySettle(c)

SpecTask == InitTask /\ [][NextTask]_vars

\* C4: of two enqueueRouteTask calls with the same (route, msgId, taskKind,
\* payloadSummary) the second returns deduped: true and its body never
\* runs, whether the first is queued, running or completed.
C4_SecondCallDeduped ==
    \A c \in Calls, d \in Calls :
        (c < d /\ tc[d].pc # "idle" /\ tc[c].key = tc[d].key)
            => (tc[d].deduped /\ ~tc[d].ran)

\* ----------------------------------------------------------- aggregation
\* SpecAgg: NumAggMsgs invocations of parseInboundMessage
\* (inbound/message-handler.ts) with aggregateWindowMs > 0.
AggMsgs == 1..NumAggMsgs

AggInit == [pc |-> "idle", route |-> None, routeGen |-> 0, mySeq |-> 0,
            win |-> 0, result |-> "none", merged |-> {}]

InitAgg ==
    /\ InitDispatch(Behaviour("preempt", FALSE, UserRoute, <<>>, 0))
    /\ InitTaskUnits
    /\ InitIdleTask
    /\ routeGeneration = [r \in Routes |-> 0]
    /\ routeAggregation = [r \in Routes |-> None]
    /\ ag = [i \in AggMsgs |-> AggInit]
    /\ aggSleepers = <<>>
    /\ InitIdleOthers

\* client.ts:378-400
pushRouteAggregation(agg, r, i) ==
    LET state == IF agg[r] = None THEN [seq |-> 0, texts |-> <<>>] ELSE agg[r]
    IN [agg EXCEPT ![r] = [seq |-> state.seq + 1, texts |-> Append(state.texts, i)]]

\* client.ts:426-429
getRouteAggregationSeq(r) ==
    IF routeAggregation[r] = None THEN 0 ELSE routeAggregation[r].seq

\* client.ts:431-435
nextRouteGeneration(r) == routeGeneration[r] + 1

\* client.ts:437-439
isRouteGenerationCurrent(r, generation) == routeGeneration[r] = generation

\* the aggregation states of route r finalized so far; numbers the state
\* that the next push on r goes into
Finalized(r) == {j \in AggMsgs : ag[j].route = r /\ ag[j].result = "finalized"}

\* message-handler.ts:338-340: the invocation takes its route generation and
\* starts materializing its media
AggStart(i, r) ==
    /\ ag[i].pc = "idle"
    /\ \A j \in AggMsgs : j < i => ag[j].pc # "idle"
    /\ routeGeneration' = [routeGeneration EXCEPT ![r] = nextRouteGeneration(r)]
    /\ ag' = [ag EXCEPT ![i] = [@ EXCEPT !.pc = "materializing", !.route = r,
                                         !.routeGen = nextRouteGeneration(r)]]
    /\ UNCHANGED <<dvars, tvars, tcvars, xvars, routeAggregation, aggSleepers>>

\* message-handler.ts:406-413: materialization is over; the invocation
\* pushes its content and sleeps for the window (equal sleeps end in the
\* order they began)
AggPush(i) ==
    LET r == ag[i].route
        agg == pushRouteAggregation(routeAggregation, r, i)
    IN /\ ag[i].pc = "materializing"
       /\ routeAggregation' = agg
       /\ ag' = [ag EXCEPT ![i] = [@ EXCEPT !.pc = "sleeping", !.mySeq = agg[r].seq,
                                            !.win = Cardinality(Finalized(r))]]
       /\ aggSleepers' = Append(aggSleepers, i)
       /\ UNCHANGED <<dvars, tvars, tcvars, xvars, routeGeneration>>

\* message-handler.ts:414-417 and client.ts:402-424: after the sleep the
\* invocation returns null if a newer generation exists or the sequence is
\* not its own, and otherwise finalizes (and deletes) the state
AggWake ==
    LET i == Head(aggSleepers)
        r == ag[i].route
        currentSeq == getRouteAggregationSeq(r)
        isNull == \/ ~isRouteGenerationCurrent(r, ag[i].routeGen)
                  \/ currentSeq = 0
                  \/ currentSeq # ag[i].mySeq
    IN /\ aggSleepers # <<>>
       /\ aggSleepers' = Tail(aggSleepers)
       /\ IF isNull
          THEN /\ ag' = [ag EXCEPT ![i] = [@ EXCEPT !.pc = "returned", !.result = "null"]]
               /\ UNCHANGED routeAggregation
          ELSE /\ ag' = [ag EXCEPT ![i] =
                            [@ EXCEPT !.pc = "returned", !.result = "finalized",
                                      !.merged = {routeAggregation[r].texts[k] :
                                                     k \in 1..Len(routeAggregation[r].texts)}]]
               /\ routeAggregation' = [routeAggregation EXCEPT ![r] = None]
       /\ UNCHANGED <<dvars, tvars, tcvars, xvars, routeGeneration>>

NextAgg ==
    \/ \E i \in AggMsgs, r \in Routes : AggStart(i, r)
    \/ \E i \in AggMsgs : AggPush(i)
    \/ AggWake

SpecAgg == InitAgg /\ [][NextAgg]_vars

\* the invocations that pushed into the same aggregation state as i
SameWindow(i) ==
    {j \in AggMsgs : /\ ag[j].pc \in {"sleeping", "returned"}
                     /\ ag[j].route = ag[i].route
                     /\ ag[j].win = ag[i].win}

\* C5: once every invocation that pushed into an aggregation state has
\* returned and no invocation is still materializing on that route, exactly
\* one of them has finalized the state and the others returned null.
C5_ExactlyOneFinalizer ==
    \A i \in AggMsgs :
        (/\ ag[i].pc = "returned"
         /\ \A j \in SameWindow(i) : ag[j].pc = "returned"
         /\ ~\E j \in AggMsgs : ag[j].pc = "materializing" /\ ag[j].route = ag[i].route)
            => Cardinality({j \in SameWindow(i) : ag[j].result = "finalized"}) = 1

\* the task bodies executing for the route of SpecTask: started, not settled
RECURSIVE BodiesUpTo(_)
BodiesUpTo(n) == IF n = 0 THEN 0 ELSE tc[n].bodies + BodiesUpTo(n - 1)

ExecutingBodies == BodiesUpTo(NumCalls)

\* C12: the task bodies executing for one route (run started, promise not
\* settled) never outnumber the concurrency cap.
C12_BodiesWithinCap == ExecutingBodies <= TaskMaxConcurrency

\* C13: a task one of whose attempts timed out is finished: no further
\* attempt follows and onFailed was invoked with status timeout.
C13_TimeoutIsTerminal ==
    \A c \in Calls :
        tc[c].timeouts > 0 => (tc[c].pc = "done" /\ tc[c].onFailed = "timeout")

\* C33: a call that was enqueued and not deduplicated ends with onFailed
\* invoked exactly once if its terminal status is failed or timeout, never
\* if one of its attempts succeeded, and never without either a succeeded
\* record or an onFailed call.
C33_OnFailedExactlyOnce ==
    \A c \in Calls :
        (tc[c].pc = "done" /\ ~tc[c].deduped) =>
            /\ tc[c].succeeded => tc[c].onFailedCalls = 0
            /\ tc[c].record \in {"failed", "timeout"} => tc[c].onFailedCalls = 1
            /\ tc[c].record = "succeeded" \/ tc[c].onFailedCalls > 0

\* ------------------------------------------------------------ send queue
\* SpecQueue: runSendQueue / enqueueSend (delivery.ts) driven by NumCallers
\* sendTextChunks loops (text-sender.ts), each the output of one dispatch,
\* whose tasks let the errors of sendWithRetry through (part_003:2256-2279).
Callers == 1..NumCallers
Chunks == 1..NumChunks

\* delivery.ts:103  opts?.requeueLeft ?? 2
RequeueLeftDefault == 2

\* variables of the dispatch engine other than the send queue's
dvarsRest == <<inbound, cfg, h, routeInflightMap, aborted, routeDispatchSeq, routeInboundSeq,
               routePendingLatestMap, routeLastTimeoutAt, routeFileTaskLockUntil,
               routeLastFallbackAt, runs, cleared, started>>

notQueue == <<dvarsRest, routeGeneration, tvars, tcvars, avars, mvars, uvars, ivars, yvars>>

\* next: the chunk the loop of text-sender.ts:13-22 submits next;
\* awaiting: inside `await enqueue(...)`; promise[i]: the promise enqueueSend
\* returned for chunk i; outcome[i]: what became of the task of chunk i
CallerInit ==
    [next |-> 1, awaiting |-> FALSE,
     promise |-> [i \in Chunks |-> "none"],
     outcome |-> [i \in Chunks |-> "none"]]

InitQueue ==
    /\ InitDispatch(Behaviour("preempt", FALSE, UserRoute, <<>>, 0))
    /\ InitTaskUnits
    /\ InitIdleTask
    /\ InitIdleAgg
    /\ routeGeneration = [r \in Routes |-> 0]
    /\ qc = [c \in Callers |-> CallerInit]
    /\ qr = [pc |-> "idle", runner |-> 0, task |-> None]
    /\ InitIdleMedia /\ InitIdleUsage /\ InitIdleQuota /\ InitIdleMore

\* text-sender.ts:13-21 with delivery.ts:102-105 and 74-76: the caller
\* submits its next chunk. enqueueSend pushes the task and awaits
\* runSendQueue, which returns at once when the queue is already running (the
\* caller's promise resolves) and otherwise makes this caller run the loop.
QueueSubmit(c) ==
    LET i == qc[c].next
        task == [caller |-> c, idx |-> i, requeueLeft |-> RequeueLeftDefault]
    IN /\ ~qc[c].awaiting
       /\ i <= NumChunks
       /\ sendQueue' = Append(sendQueue, task)
       /\ IF sendQueueRunning
          THEN /\ qc' = [qc EXCEPT ![c] = [@ EXCEPT !.next = i + 1,
                                                    !.promise[i] = "resolved"]]
               /\ UNCHANGED <<sendQueueRunning, qr>>
          ELSE /\ sendQueueRunning' = TRUE
               /\ qr' = [pc |-> "loop", runner |-> c, task |-> None]
               /\ qc' = [qc EXCEPT ![c] = [@ EXCEPT !.awaiting = TRUE,
                                                    !.promise[i] = "pending"]]
       /\ UNCHANGED <<sent, notQueue>>

\* delivery.ts:77-97: the loop shifts the head task and runs it. how: the
\* task resolved ("ok"), threw a retriable error ("retriable") or another
\* error ("fatal"). A retriable error with requeue budget left sends the
\* loop into its backoff sleep; any other error drops the task.
QueueRunTask(how) ==
    LET task == Head(sendQueue)
        c == task.caller
        i == task.idx
    IN /\ qr.pc = "loop"
       /\ sendQueue # <<>>
       /\ sendQueue' = Tail(sendQueue)
       /\ IF how = "ok"
          THEN /\ sent' = sent \cup {[caller |-> c, idx |-> i, pos |-> Cardinality(sent) + 1]}
               /\ qc' = [qc EXCEPT ![c] = [@ EXCEPT !.outcome[i] = "sent"]]
               /\ UNCHANGED qr
          ELSE IF how = "retriable" /\ task.requeueLeft > 0
          THEN /\ qr' = [qr EXCEPT !.pc = "backoff",
                                   !.task = [task EXCEPT !.requeueLeft = @ - 1]]
               /\ UNCHANGED <<sent, qc>>
          ELSE /\ qc' = [qc EXCEPT ![c] = [@ EXCEPT !.outcome[i] = "dropped"]]
               /\ UNCHANGED <<sent, qr>>
       /\ UNCHANGED <<sendQueueRunning, notQueue>>

\* delivery.ts:88-89: the backoff sleep ends and the task is pushed again
QueueBackoffEnd ==
    /\ qr.pc = "backoff"
    /\ sendQueue' = Append(sendQueue, qr.task)
    /\ qr' = [qr EXCEPT !.pc = "loop", !.task = None]
    /\ UNCHANGED <<sendQueueRunning, sent, qc, notQueue>>

\* a runner that stops without looking at the queue again
QueueDrainedUnchecked ==
    LET c == qr.runner
        i == qc[c].next
    IN /\ qr.pc = "loop"
       /\ sendQueueRunning' = FALSE
       /\ qr' = [pc |-> "idle", runner |-> 0, task |-> None]
       /\ qc' = [qc EXCEPT ![c] = [@ EXCEPT !.awaiting = FALSE, !.next = i + 1,
                                                 !.promise[i] = "resolved"]]
       /\ UNCHANGED <<sendQueue, sent, notQueue>>

\* delivery.ts:77, 99 and 104: the loop finds the queue empty, runSendQueue
\* returns and the promise of the caller that ran it resolves
QueueDrained ==
    LET c == qr.runner
        i == qc[c].next
    IN /\ qr.pc = "loop"
       /\ sendQueue = <<>>
       /\ sendQueueRunning' = FALSE
       /\ qr' = [pc |-> "idle", runner |-> 0, task |-> None]
       /\ qc' = [qc EXCEPT ![c] = [@ EXCEPT !.awaiting = FALSE, !.next = i + 1,
                                                 !.promise[i] = "resolved"]]
       /\ UNCHANGED <<sendQueue, sent, notQueue>>

\* C37: the queue is never left non-empty while no runner is draining it,
\* and when no runner is active every task that was submitted has been
\* executed or dropped.
C37_QueueNeverStranded ==
    /\ sendQueue # <<>> => sendQueueRunning
    /\ ~sendQueueRunning =>
           \A c \in Callers, i \in Chunks :
               qc[c].promise[i] # "none" => qc[c].outcome[i] # "none"

\* a runner that has executed its own task finds a task another caller
\* submitted meanwhile
C37_Witness ==
    /\ qr.pc = "loop"
    /\ sendQueue # <<>>
    /\ Head(sendQueue).caller # qr.runner
    /\ \E s \in sent : s.caller = qr.runner

NextQueue ==
    \/ \E c \in Callers : QueueSubmit(c)
    \/ \E how \in {"ok", "retriable", "fatal"} : QueueRunTask(how)
    \/ QueueBackoffEnd
    \/ QueueDrained

SpecQueue == InitQueue /\ [][NextQueue]_vars

\* C14: the chunks of one sendTextChunks call reach the protocol in the
\* order they were submitted, also after a retriable failure and requeue.
C14_SubmissionOrderKept ==
    \A s1 \in sent, s2 \in sent :
        (s1.caller = s2.caller /\ s1.idx < s2.idx) => s1.pos < s2.pos

\* C15: a promise returned by enqueueSend has resolved only if its task was
\* executed and sent, and the promise of a dropped task is rejected.
C15_PromiseTellsOutcome ==
    \A c \in Callers, i \in Chunks :
        /\ qc[c].promise[i] = "resolved" => qc[c].outcome[i] = "sent"
        /\ qc[c].outcome[i] = "dropped" => qc[c].promise[i] = "rejected"

\* ------------------------------------------------------------ media dedup
\* SpecMedia: the queued task of sendMediaItems (media-sender.ts:144-201)
\* for one media item: its candidate loop calls sendSegments, hence
\* sendWithRetry (delivery.ts:107-139), once per candidate with the same
\* mediaDedupKey.
MEDIA_DEDUP_WINDOW_MS == 45000

\* delivery.ts:108  Math.max(1, config.sendQueueMaxRetries ?? 3)
SendQueueMaxRetries == 3

MediaKey == "k1"

notMedia == <<dvars, routeGeneration, tvars, tcvars, avars, qvars, uvars, ivars, yvars>>

\* delivery.ts:69-72; -1 stands for a key that is not in the map
shouldSuppressMediaRetry(key, now) ==
    LET ts == recentMediaSendAttempts[key]
    IN ts # -1 /\ now - ts <= MEDIA_DEDUP_WINDOW_MS

\* cand: position in mediaCandidates; i: the loop index of sendWithRetry;
\* now: Date.now()
InitMedia ==
    /\ InitDispatch(Behaviour("preempt", FALSE, UserRoute, <<>>, 0))
    /\ InitTaskUnits
    /\ InitIdleTask
    /\ InitIdleAgg
    /\ routeGeneration = [r \in Routes |-> 0]
    /\ recentMediaSendAttempts = [k \in {MediaKey} |-> -1]
    /\ md = [pc |-> "attempt", cand |-> 1, i |-> 1, now |-> 0]
    /\ mediaSends = {}
    /\ InitIdleQueue /\ InitIdleUsage /\ InitIdleQuota /\ InitIdleMore

\* media-sender.ts:162-196: sendSegments threw, the loop goes on to the next
\* candidate, and the task throws when none is left
NextCandidate ==
    IF md.cand < NumCandidates
    THEN [md EXCEPT !.pc = "attempt", !.cand = @ + 1, !.i = 1]
    ELSE [md EXCEPT !.pc = "failed"]

\* delivery.ts:110-134: one iteration of the loop of sendWithRetry. how: fn()
\* resolved ("ok"), rejected with a retriable error ("retriable") or with
\* another one ("fatal"), or preflight / ensureReady threw a non-retriable
\* error before fn() was called ("blocked").
MediaAttempt(how) ==
    LET key == MediaKey
        prior == recentMediaSendAttempts[key]
        send == [n |-> Cardinality(mediaSends) + 1, at |-> md.now,
                 prior |-> prior, cand |-> md.cand, i |-> md.i, ok |-> how = "ok"]
    IN /\ md.pc = "attempt"
       /\ IF md.i > 1 /\ shouldSuppressMediaRetry(key, md.now)
          THEN \* return { dedupSuppressed: true }: the candidate counts as sent
               /\ md' = [md EXCEPT !.pc = "done"]
               /\ UNCHANGED <<recentMediaSendAttempts, mediaSends>>
          ELSE /\ recentMediaSendAttempts' =
                      IF md.i = 1 THEN [recentMediaSendAttempts EXCEPT ![key] = md.now]
                                  ELSE recentMediaSendAttempts
               /\ mediaSends' = IF how = "blocked" THEN mediaSends
                                                   ELSE mediaSends \cup {send}
               /\ md' = IF how = "ok" THEN [md EXCEPT !.pc = "done"]
                        ELSE IF how = "retriable" /\ md.i < SendQueueMaxRetries
                        THEN [md EXCEPT !.pc = "sleep"]
                        ELSE NextCandidate
       /\ UNCHANGED notMedia

\* delivery.ts:129-131: the retry delay is over, the loop continues
MediaRetryWake ==
    /\ md.pc = "sleep"
    /\ md' = [md EXCEPT !.pc = "attempt", !.i = @ + 1]
    /\ UNCHANGED <<recentMediaSendAttempts, mediaSends, notMedia>>

\* time passes while the task is under way
MediaTick ==
    /\ md.pc \in {"attempt", "sleep"}
    /\ md.now + MediaTickMs <= MaxMediaClock
    /\ md' = [md EXCEPT !.now = @ + MediaTickMs]
    /\ UNCHANGED <<recentMediaSendAttempts, mediaSends, notMedia>>

NextMedia ==
    \/ \E how \in {"ok", "retriable", "fatal", "blocked"} : MediaAttempt(how)
    \/ MediaRetryWake
    \/ MediaTick

SpecMedia == InitMedia /\ [][NextMedia]_vars

\* C16: a protocol send carrying a mediaDedupKey is never made within 45 s
\* of an earlier attempt that seeded the key.
C16_NoSendInsideDedupWindow ==
    \A s \in mediaSends :
        s.prior = -1 \/ s.at - s.prior > MEDIA_DEDUP_WINDOW_MS

\* C31: the media item is reported as sent (sendSegments returned: phase
\* sent, then onSent with its conversation log and usage bump) only if a
\* protocol send for it succeeded.
C31_SentOnlyAfterSuccess ==
    md.pc = "done" => \E s \in mediaSends : s.ok

\* ------------------------------------------------------------ route usage
\* SpecUsage: bumpRouteUsage (session-store.ts:169-181) on the usage file of
\* one route, called by the message handler for each dispatch
\* (part_003:1936, 2076) and by the tasks of the send queue for each sent
\* unit (part_003:1676, 1697). The queue runs one task at a time; the handler
\* runs beside it.
UsageKinds == {"dispatch", "sendText", "sendMedia", "sendVoice"}
Bumpers == {"handler", "queue"}

BumpKinds(p) ==
    IF p = "handler" THEN {"dispatch"} ELSE {"sendText", "sendMedia", "sendVoice"}

\* session-store.ts:138-146, without updatedAt
defaultRouteUsageStats == [k \in UsageKinds |-> 0]

notUsage == <<dvars, routeGeneration, tvars, tcvars, avars, qvars, mvars, ivars, yvars>>

\* usageFile: the parsed content of the route's usage file.
\* ub.proc[p]: pc, the kind being bumped and the stats object `s` read;
\* ub.completed[k]: bumpRouteUsage calls of kind k that returned;
\* ub.high[k]: the highest value counter k has had in the file
InitUsage ==
    /\ InitDispatch(Behaviour("preempt", FALSE, UserRoute, <<>>, 0))
    /\ InitTaskUnits
    /\ InitIdleTask
    /\ InitIdleAgg
    /\ routeGeneration = [r \in Routes |-> 0]
    /\ usageFile = defaultRouteUsageStats
    /\ ub = [proc |-> [p \in Bumpers |->
                         [pc |-> "idle", kind |-> "dispatch", s |-> defaultRouteUsageStats, calls |-> 0]],
             completed |-> [k \in UsageKinds |-> 0],
             high |-> [k \in UsageKinds |-> 0]]
    /\ InitIdleQueue /\ InitIdleMedia /\ InitIdleQuota /\ InitIdleMore

\* session-store.ts:171 with 148-162: `await readRouteUsageStats(...)`
UsageRead(p, kind) ==
    /\ ub.proc[p].pc = "idle"
    /\ ub.proc[p].calls < MaxBumps
    /\ kind \in BumpKinds(p)
    /\ ub' = [ub EXCEPT !.proc[p] = [pc |-> "read", kind |-> kind, s |-> usageFile,
                                     calls |-> @.calls + 1]]
    /\ UNCHANGED <<usageFile, notUsage>>

\* session-store.ts:172-177 with 164-167: the counter of the stats object
\* read is increased and the object is written over the file
UsageWrite(p) ==
    LET kind == ub.proc[p].kind
        s == [ub.proc[p].s EXCEPT ![kind] = @ + 1]
    IN /\ ub.proc[p].pc = "read"
       /\ usageFile' = s
       /\ ub' = [ub EXCEPT !.proc[p].pc = "idle",
                           !.completed[kind] = @ + 1,
                           !.high = [k \in UsageKinds |->
                                       IF s[k] > ub.high[k] THEN s[k] ELSE ub.high[k]]]
       /\ UNCHANGED notUsage

NextUsage ==
    \/ \E p \in Bumpers, kind \in UsageKinds : UsageRead(p, kind)
    \/ \E p \in Bumpers : UsageWrite(p)

SpecUsage == InitUsage /\ [][NextUsage]_vars

UsageQuiet == \A p \in Bumpers : ub.proc[p].pc = "idle"

\* C17: every completed bump is counted exactly once: with no bump under
\* way, each counter equals the number of bumps of its kind.
C17_EveryBumpCounted ==
    UsageQuiet => \A k \in UsageKinds : usageFile[k] = ub.completed[k]

\* C18: no usage counter is ever below a value it has had before.
C18_CountersNeverDecrease ==
    \A k \in UsageKinds : usageFile[k] >= ub.high[k]

\* ------------------------------------------------------------ image quota
\* SpecQuota: the conversation state file of one route, read and written by
\* consumeImageQuota (session-store.ts:292-306; called by the queued task of
\* sendMediaItems before an image is sent, media-sender.ts:153-157) and by
\* updateConversationStateOnInbound (session-store.ts:269-290; called by the
\* message handler, part_003:1337).
IMAGE_QUOTA_WINDOW_MS == 7200000
IMAGE_QUOTA_MAX == 5

QuotaProcs == {"sender", "inbound"}
QuotaTimes == {t \in 0..MaxQuotaClock : t % QuotaTickMs = 0}

notQuota == <<dvars, routeGeneration, tvars, tcvars, avars, qvars, mvars, uvars, yvars>>

\* the fields of QQConversationState the quota depends on
\* (session-store.ts:230-239); the file was created at instant 0
defaultConversationState == [imageWindowStartMs |-> 0, imageCountInWindow |-> 0]

\* session-store.ts:272-275 and 295-298
resetImageWindow(state, now) ==
    IF now - state.imageWindowStartMs >= IMAGE_QUOTA_WINDOW_MS
    THEN [imageWindowStartMs |-> now, imageCountInWindow |-> 0]
    ELSE state

\* iq[p]: pc and the state object read; clock: Date.now();
\* imagesAt[t]: images sent at instant t
InitQuota ==
    /\ InitDispatch(Behaviour("preempt", FALSE, UserRoute, <<>>, 0))
    /\ InitTaskUnits
    /\ InitIdleTask
    /\ InitIdleAgg
    /\ routeGeneration = [r \in Routes |-> 0]
    /\ convFile = defaultConversationState
    /\ iq = [p \in QuotaProcs |-> [pc |-> "idle", state |-> defaultConversationState]]
    /\ clock = 0
    /\ imagesAt = [t \in QuotaTimes |-> 0]
    /\ InitIdleQueue /\ InitIdleMedia /\ InitIdleUsage /\ InitIdleMore

RECURSIVE SumImages(_)
SumImages(T) ==
    IF T = {} THEN 0
    ELSE LET t == CHOOSE x \in T : TRUE IN imagesAt[t] + SumImages(T \ {t})

ImagesSent == SumImages(QuotaTimes)

\* session-store.ts:270 and 293: `await readConversationState(...)`
QuotaRead(p) ==
    /\ iq[p].pc = "idle"
    /\ p = "sender" => ImagesSent < MaxImages
    /\ iq' = [iq EXCEPT ![p] = [pc |-> "read", state |-> convFile]]
    /\ UNCHANGED <<convFile, clock, imagesAt, notQuota>>

\* session-store.ts:294-305 and media-sender.ts:157-198: the quota is
\* refused, or one image is counted, the state read is written over the file
\* and the image goes to the protocol (sentOk: a candidate was accepted)
ConsumeImageQuota(sentOk) ==
    LET state == resetImageWindow(iq["sender"].state, clock)
    IN /\ iq["sender"].pc = "read"
       /\ iq' = [iq EXCEPT !["sender"].pc = "idle"]
       /\ IF state.imageCountInWindow >= IMAGE_QUOTA_MAX
          THEN UNCHANGED <<convFile, imagesAt>>
          ELSE /\ convFile' = [state EXCEPT !.imageCountInWindow = @ + 1]
               /\ imagesAt' = IF sentOk THEN [imagesAt EXCEPT ![clock] = @ + 1]
                                        ELSE imagesAt
       /\ UNCHANGED <<clock, notQuota>>

\* session-store.ts:271-288: the state read, with its window possibly
\* reset and its mood fields updated, is written over the file
UpdateConversationStateOnInbound ==
    /\ iq["inbound"].pc = "read"
    /\ convFile' = resetImageWindow(iq["inbound"].state, clock)
    /\ iq' = [iq EXCEPT !["inbound"].pc = "idle"]
    /\ UNCHANGED <<clock, imagesAt, notQuota>>

QuotaTick ==
    /\ clock + QuotaTickMs <= MaxQuotaClock
    /\ clock' = clock + QuotaTickMs
    /\ UNCHANGED <<convFile, iq, imagesAt, notQuota>>

NextQuota ==
    \/ \E p \in QuotaProcs : QuotaRead(p)
    \/ \E sentOk \in BOOLEAN : ConsumeImageQuota(sentOk)
    \/ UpdateConversationStateOnInbound
    \/ QuotaTick

SpecQuota == InitQuota /\ [][NextQuota]_vars

\* images sent in the interval [t, t + IMAGE_QUOTA_WINDOW_MS)
ImagesWithin(t) ==
    SumImages({u \in QuotaTimes : t <= u /\ u < t + IMAGE_QUOTA_WINDOW_MS})

\* C19: no interval of two hours holds more than IMAGE_QUOTA_MAX sent images.
C19_RollingImageQuota ==
    \A t \in QuotaTimes : ImagesWithin(t) <= IMAGE_QUOTA_MAX

\* ------------------------------------------------------------ fallback cooldown
\* SpecFallback: the fallback decisions of one route. deliver
\* (part_003:1702-1751) and the catch block of the handler
\* (part_003:2164-2190) both test canSendFallbackNow, await the send of the
\* fallback text and only then call recordFallbackSent.
\* part_003:1402  Number(config.outboundFallbackCooldownMs ?? 30_000)
OutboundFallbackCooldownMs == 30000

\* the deliver call of a dispatch, the catch block of the same dispatch, and
\* the deliver call of another dispatch of the route
FallbackCallers == {"deliverA", "catchA", "deliverB"}

FallbackTimes == {t \in 0..MaxFallbackClock : t % FallbackTickMs = 0}

\* dispatch engine with no message, and every other component idle
InitQuiet ==
    /\ InitDispatch(Behaviour("preempt", FALSE, UserRoute, <<>>, 0))
    /\ InitTaskUnits
    /\ InitIdleTask
    /\ InitIdleAgg
    /\ routeGeneration = [r \in Routes |-> 0]
    /\ InitIdleQueue /\ InitIdleMedia /\ InitIdleUsage /\ InitIdleQuota

quiet == <<dvars, routeGeneration, tvars, tcvars, avars, qvars, mvars, uvars, ivars>>

\* fbk.routeLastFallbackAt: the stamp of the route (0: never set);
\* fbk.now: Date.now(); fbk.pc[p]: where caller p stands;
\* fbk.sentAt: the fallback texts handed to the protocol, with their instant
notFallback == <<quiet, tr, au, rt, pol, lim, agt, svc, rc, cl, pm>>

InitFallback ==
    /\ InitQuiet
    /\ InitIdleTrace /\ InitIdleAuto /\ InitIdleRoute /\ InitIdlePolicy /\ InitIdleLimit /\ InitIdleAgent /\ InitIdleTick /\ InitIdleReconnect /\ InitIdleClear /\ InitIdleDedup
    /\ fbk = [routeLastFallbackAt |-> 0, now |-> OutboundFallbackCooldownMs,
             pc |-> [p \in FallbackCallers |-> "idle"], sentAt |-> {}]

\* part_003:1399-1405 with the stamp kept as a number
canSendFallbackAt(now) ==
    OutboundFallbackOnDrop /\ now - fbk.routeLastFallbackAt >= OutboundFallbackCooldownMs

\* part_003:1702 and 2164: the caller's own conditions hold and it tests the
\* cooldown; when it may send it enters `await sendWithRetry(...)`
FallbackDecide(p) ==
    /\ fbk.pc[p] = "idle"
    /\ fbk' = [fbk EXCEPT !.pc[p] = IF canSendFallbackAt(fbk.now) THEN "sending" ELSE "done"]
    /\ UNCHANGED notFallback

\* part_003:1726-1742 and 2166-2186: sendWithRetry resolved (the text went out
\* and recordFallbackSent stamps the route) or rejected (nothing is stamped)
FallbackSendEnd(p, ok) ==
    /\ fbk.pc[p] = "sending"
    /\ fbk' = IF ok
             THEN [fbk EXCEPT !.pc[p] = "done",
                             !.routeLastFallbackAt = fbk.now,
                             !.sentAt = @ \cup {[by |-> p, at |-> fbk.now]}]
             ELSE [fbk EXCEPT !.pc[p] = "done"]
    /\ UNCHANGED notFallback

FallbackTick ==
    /\ fbk.now + FallbackTickMs <= MaxFallbackClock
    /\ fbk' = [fbk EXCEPT !.now = @ + FallbackTickMs]
    /\ UNCHANGED notFallback

NextFallback ==
    \/ \E p \in FallbackCallers : FallbackDecide(p)
    \/ \E p \in FallbackCallers, ok \in BOOLEAN : FallbackSendEnd(p, ok)
    \/ FallbackTick

SpecFallback == InitFallback /\ [][NextFallback]_vars

\* C21: two fallback messages of a route are never less than
\* outboundFallbackCooldownMs apart.
C21_FallbackCooldownKept ==
    \A s1 \in fbk.sentAt, s2 \in fbk.sentAt :
        (s1 # s2 /\ s1.at <= s2.at) => s2.at - s1.at >= OutboundFallbackCooldownMs

\* ------------------------------------------------------------ delivery trace
\* SpecTrace: the delivery attempts one dispatch makes through deliver, one
\* after the other, and the records logDeliveryAttemptTrace writes for them.
\* An attempt is a call of sendTextChunk (part_003:1443-1596) or of
\* sendSegments (part_003:1598-1646), or the refusal of the beforeOutbound
\* policy hook (part_003:1648-1665); an attempt id is its kind with the value
\* of deliveryAttemptSeq (part_003:1392-1393).
notTrace == <<quiet, fbk, au, rt, pol, lim, agt, svc, rc, cl, pm>>

\* deliveryAttemptSeq: part_003:1392; pc, kind, i: the attempt under way and
\* the loop index of its sendWithRetry; log: the trace records written
InitTrace ==
    /\ InitQuiet
    /\ InitIdleFallback /\ InitIdleAuto /\ InitIdleRoute /\ InitIdlePolicy /\ InitIdleLimit /\ InitIdleAgent /\ InitIdleTick /\ InitIdleReconnect /\ InitIdleClear /\ InitIdleDedup
    /\ tr = [deliveryAttemptSeq |-> 0, pc |-> "idle", kind |-> "none", i |-> 0, log |-> <<>>]

attemptId == <<tr.kind, tr.deliveryAttemptSeq>>

logDeliveryAttemptTrace(log, id, phase) == Append(log, [attemptId |-> id, phase |-> phase])

\* part_003:1648-1665: the policy hook refuses the payload; one "dropped"
\* record under an attempt id of its own, and deliver throws
TracePolicyBlocked ==
    LET seq == tr.deliveryAttemptSeq + 1
    IN /\ tr.pc = "idle"
       /\ seq <= NumAttempts
       /\ tr' = [tr EXCEPT !.deliveryAttemptSeq = seq, !.kind = "policy", !.pc = "end",
                           !.log = logDeliveryAttemptTrace(@, <<"policy", seq>>, "dropped")]
       /\ UNCHANGED notTrace

\* part_003:1443-1526: sendTextChunk up to the call of sendWithRetry. guard:
\* the chunk is held back by the meta-leak or duplicate guards ("suppressed"),
\* checkRouteUsageQuota throws ("quota"), or the chunk goes on ("pass")
TraceTextBegin(guard) ==
    LET seq == tr.deliveryAttemptSeq + 1
        id == <<"text", seq>>
        prepared == logDeliveryAttemptTrace(tr.log, id, "prepared")
    IN /\ tr.pc = "idle"
       /\ seq <= NumAttempts
       /\ tr' = IF guard = "suppressed"
                THEN [tr EXCEPT !.deliveryAttemptSeq = seq, !.kind = "text",
                                !.log = logDeliveryAttemptTrace(prepared, id, "dropped")]
                ELSE IF guard = "quota"
                THEN [tr EXCEPT !.deliveryAttemptSeq = seq, !.kind = "text",
                                !.log = logDeliveryAttemptTrace(prepared, id, "failed")]
                ELSE [tr EXCEPT !.deliveryAttemptSeq = seq, !.kind = "text",
                                !.pc = "sendWithRetry", !.i = 1,
                                !.log = logDeliveryAttemptTrace(prepared, id, "queued")]
       /\ UNCHANGED notTrace

\* part_003:1598-1608: sendSegments up to the call of sendWithRetry.
\* canSend: assertDispatchCanSend does not throw
TraceMediaBegin(canSend) ==
    LET seq == tr.deliveryAttemptSeq + 1
        id == <<"media", seq>>
    IN /\ tr.pc = "idle"
       /\ seq <= NumAttempts
       /\ tr' = [tr EXCEPT !.deliveryAttemptSeq = seq, !.kind = "media",
                           !.pc = IF canSend THEN "sendWithRetry" ELSE "idle",
                           !.i = IF canSend THEN 1 ELSE 0,
                           !.log = logDeliveryAttemptTrace(@, id, "queued")]
       /\ UNCHANGED notTrace

\* what the caller of sendWithRetry logs when it resolves ("sent"), rejects
\* with a DispatchDropError ("dropped") or with another error ("failed"):
\* part_003:1546-1595 for text; sendSegments (part_003:1636-1645) logs "sent"
\* and has no catch block
TraceEnd(log, result) ==
    IF tr.kind = "text" \/ result = "sent"
    THEN logDeliveryAttemptTrace(log, attemptId, result)
    ELSE log

\* delivery.ts:110-134: one iteration of sendWithRetry for the attempt. how:
\* a media retry is suppressed by the dedup window ("suppressed"), the
\* preflight throws a DispatchDropError ("refused"), fn() resolves ("ok") or
\* rejects with a retriable ("retriable") or another ("fatal") error
TraceSendAttempt(how) ==
    LET sending == logDeliveryAttemptTrace(tr.log, attemptId, "sending")
    IN /\ tr.pc = "sendWithRetry"
       /\ how = "suppressed" => (tr.kind = "media" /\ tr.i > 1)
       /\ tr' = IF how = "suppressed"
                THEN [tr EXCEPT !.pc = "idle", !.log = TraceEnd(@, "sent")]
                ELSE IF how = "refused"
                THEN [tr EXCEPT !.pc = "idle", !.log = TraceEnd(@, "dropped")]
                ELSE IF how = "ok"
                THEN [tr EXCEPT !.pc = "idle", !.log = TraceEnd(sending, "sent")]
                ELSE IF how = "retriable" /\ tr.i < SendQueueMaxRetries
                THEN [tr EXCEPT !.i = @ + 1, !.log = sending]
                ELSE [tr EXCEPT !.pc = "idle", !.log = TraceEnd(sending, "failed")]
       /\ UNCHANGED notTrace

NextTrace ==
    \/ TracePolicyBlocked
    \/ \E guard \in {"suppressed", "quota", "pass"} : TraceTextBegin(guard)
    \/ \E canSend \in BOOLEAN : TraceMediaBegin(canSend)
    \/ \E how \in {"suppressed", "refused", "ok", "retriable", "fatal"} : TraceSendAttempt(how)

SpecTrace == InitTrace /\ [][NextTrace]_vars

\* the phases logged under one attempt id, in the order they were written
RECURSIVE PhasesOf(_, _)
PhasesOf(log, id) ==
    IF log = <<>> THEN <<>>
    ELSE IF Head(log).attemptId = id
    THEN <<Head(log).phase>> \o PhasesOf(Tail(log), id)
    ELSE PhasesOf(Tail(log), id)

AttemptIds == {tr.log[n].attemptId : n \in 1..Len(tr.log)}

AttemptOver(id) == tr.pc \in {"idle", "end"} \/ id # attemptId

\* C23: the records of every delivery attempt that is over are prepared,
\* queued, sending and one of sent, dropped, failed, in this order.
C23_TraceSequenceComplete ==
    \A id \in AttemptIds :
        AttemptOver(id) =>
            \E last \in {"sent", "dropped", "failed"} :
                PhasesOf(tr.log, id) = <<"prepared", "queued", "sending", last>>

\* ------------------------------------------------------------ automation manager
\* SpecAuto: the reconcile passes of qq-automation-manager (service.ts) over
\* NumTargets enabled agent-only targets with valid routes and the same cron
\* schedule. Passes never overlap (`running`, service.ts:722-735).
Targets == 1..NumTargets

MinuteMs == 60000

\* service.ts:354-362 cronBucket: the minute the instant lies in, written
\* YYYYMMDDHHMM; kept as the number of that minute
cronBucket(nowMs) == nowMs \div MinuteMs

\* service.ts:364-375 matchesCron for the expression "*/2 * * * *"
matchesCron(nowMs) == (cronBucket(nowMs) % 60) % 2 = 0

\* service.ts:603-604  smart.minSilenceMinutes || 30, smart.activeConversationMinutes || 25
MinSilenceMinutes == 30
ActiveConversationMinutes == 25
\* service.ts:605-606  randomIntervalMinMinutes || 30, randomIntervalMaxMinutes || 60
RandomIntervalMinMinutes == 30
RandomIntervalMaxMinutes == 60

\* service.ts:497 and 533-548: the state of a target the file does not hold
\* (lastCronBucket 0: undefined)
TargetStateInit ==
    [present |-> FALSE, lastTriggeredAtMs |-> 0, lastSentAtMs |-> 0, nextEligibleAtMs |-> 0,
     lastRunResult |-> "idle", lastSkipReason |-> "", lastCronBucket |-> 0, due |-> FALSE,
     atDone |-> FALSE]

\* the configurations and conversation histories SpecAuto starts from: the
\* time zone of each target's schedule is one Intl accepts or not, smart
\* throttle on or off, last inbound none / 5 / 40 minutes ago, last
\* outbound none / 10 / 50 minutes ago
AutoInputs ==
    [tzValid : [Targets -> BOOLEAN], smartEnabled : BOOLEAN,
     lastInboundAtMs : {0, AutoStartMs - 5 * MinuteMs, AutoStartMs - 40 * MinuteMs},
     lastOutboundAtMs : {0, AutoStartMs - 10 * MinuteMs, AutoStartMs - 50 * MinuteMs}]

notAuto == <<quiet, fbk, tr, rt, pol, lim, agt, svc, rc, cl, pm>>

\* au.file: the reconcile state file; au.pass: the pass under way (k: the
\* target the loop is at; prev, next: service.ts:497-498); au.turns[t][b]:
\* agent turns triggered for target t in minute b
InitAuto ==
    /\ InitQuiet
    /\ InitIdleFallback /\ InitIdleTrace /\ InitIdleRoute /\ InitIdlePolicy /\ InitIdleLimit /\ InitIdleAgent /\ InitIdleTick /\ InitIdleReconnect /\ InitIdleClear /\ InitIdleDedup
    /\ \E in \in AutoInputs :
          au = [schedule |-> [kind |-> "cron", atMs |-> 0],
                tzValid |-> in.tzValid, smartEnabled |-> in.smartEnabled,
                lastInboundAtMs |-> in.lastInboundAtMs,
                lastOutboundAtMs |-> in.lastOutboundAtMs,
                now |-> AutoStartMs,
                file |-> [t \in Targets |-> TargetStateInit],
                pass |-> [pc |-> "idle", k |-> 0, nowMs |-> 0, startedAt |-> 0,
                          prev |-> [t \in Targets |-> TargetStateInit],
                          next |-> [t \in Targets |-> TargetStateInit]],
                turns |-> [t \in Targets |->
                             [b \in cronBucket(AutoStartMs)..cronBucket(MaxAutoClock) |-> 0]]]

\* service.ts:423-440 shouldRunNow, kinds "at" and "cron"; patch: the
\* result carries a nextStatePatch (atDone: true, lastCronBucket: bucket)
shouldRunNow(schedule, state, nowMs) ==
    LET bucket == cronBucket(nowMs)
    IN IF schedule.kind = "at"
       THEN IF state.atDone THEN [due |-> FALSE, patch |-> FALSE]
            ELSE IF nowMs >= schedule.atMs THEN [due |-> TRUE, patch |-> TRUE]
            ELSE [due |-> FALSE, patch |-> FALSE]
       ELSE IF state.lastCronBucket = bucket THEN [due |-> FALSE, patch |-> FALSE]
       ELSE IF ~matchesCron(nowMs) THEN [due |-> FALSE, patch |-> FALSE]
       ELSE [due |-> TRUE, patch |-> TRUE]

\* service.ts:601-628: the skip reason of the smart throttle ("" for none)
smartSkipReason(base, nowMs, lastIn, lastOut) ==
    LET minSilenceMs == MinSilenceMinutes * MinuteMs
        activeMs == ActiveConversationMinutes * MinuteMs
        latest == IF lastIn > lastOut THEN lastIn ELSE lastOut
    IN IF lastIn = 0 THEN "no_inbound_yet"
       ELSE IF nowMs - lastIn < minSilenceMs THEN "silence_not_reached"
       ELSE IF lastIn > 0 /\ lastOut > 0 /\ latest >= nowMs - activeMs
       THEN "active_conversation"
       ELSE IF base.nextEligibleAtMs > nowMs THEN "interval_not_reached"
       ELSE ""

\* service.ts:722-731 and 491-499: the timer fires with no pass running;
\* the pass reads the state file and the clock
PassStart ==
    /\ au.pass.pc = "idle"
    /\ au.pass.startedAt = 0 \/ au.now - au.pass.startedAt >= AutoTickMs
    /\ au' = [au EXCEPT !.pass = [pc |-> "loop", k |-> 1, nowMs |-> au.now,
                                  startedAt |-> au.now, prev |-> au.file,
                                  next |-> [t \in Targets |-> TargetStateInit]]]
    /\ UNCHANGED notAuto

\* service.ts:501-714: the body of the loop for the target the pass is at.
\* registered: ensureAgentRegistered resolved; sendOk: the agent turn
\* succeeded; rnd: the minutes randomMinutes draws. A time zone Intl rejects
\* makes localDateInTz (service.ts:333-343) throw inside shouldRunNow, and
\* the pass ends in the catch of tick (service.ts:731-733).
PassTarget(registered, sendOk, rnd) ==
    LET t == au.pass.k
        nowMs == au.pass.nowMs
        prev == au.pass.prev[t]
        base0 == [prev EXCEPT !.present = TRUE, !.due = FALSE]
        due == shouldRunNow(au.schedule, base0, nowMs)
        base == IF ~due.patch THEN base0
                ELSE IF au.schedule.kind = "at" THEN [base0 EXCEPT !.atDone = TRUE]
                ELSE [base0 EXCEPT !.lastCronBucket = cronBucket(nowMs)]
        skipReason == IF au.smartEnabled
                      THEN smartSkipReason(base, nowMs, au.lastInboundAtMs, au.lastOutboundAtMs)
                      ELSE ""
        eligible == IF au.smartEnabled /\ base.nextEligibleAtMs = 0 /\ base.lastSentAtMs > 0
                       /\ skipReason \in {"", "interval_not_reached"}
                    THEN [base EXCEPT !.nextEligibleAtMs = base.lastSentAtMs + rnd * MinuteMs]
                    ELSE base
        put(state) == [au EXCEPT !.pass.next[t] = state, !.pass.k = t + 1]
    IN /\ au.pass.pc = "loop"
       /\ t <= NumTargets
       /\ au' =
            IF ~registered
            THEN put([base0 EXCEPT !.lastRunResult = "failed"])
            ELSE IF au.schedule.kind = "cron" /\ ~au.tzValid[t]
            THEN [au EXCEPT !.pass.pc = "idle"]
            ELSE IF ~due.due
            THEN put(base)
            ELSE IF skipReason # ""
            THEN put([eligible EXCEPT !.lastTriggeredAtMs = nowMs, !.lastRunResult = "skipped",
                                      !.lastSkipReason = skipReason, !.due = TRUE])
            ELSE LET fired == [put(IF sendOk
                                   THEN [eligible EXCEPT !.lastTriggeredAtMs = nowMs,
                                                         !.lastSentAtMs = nowMs,
                                                         !.nextEligibleAtMs = nowMs + rnd * MinuteMs,
                                                         !.lastRunResult = "sent",
                                                         !.lastSkipReason = "", !.due = TRUE]
                                   ELSE [eligible EXCEPT !.lastTriggeredAtMs = nowMs,
                                                         !.lastRunResult = "failed",
                                                         !.due = TRUE])
                                 EXCEPT !.turns[t][cronBucket(nowMs)] = @ + 1]
                 IN IF sendOk THEN [fired EXCEPT !.lastOutboundAtMs = au.now] ELSE fired
       /\ UNCHANGED notAuto

\* service.ts:716-717: the loop is over and `next` is written over the file
PassEnd ==
    /\ au.pass.pc = "loop"
    /\ au.pass.k > NumTargets
    /\ au' = [au EXCEPT !.file = au.pass.next, !.pass.pc = "idle"]
    /\ UNCHANGED notAuto

AutoTick ==
    /\ au.now + AutoTickMs <= MaxAutoClock
    /\ au' = [au EXCEPT !.now = @ + AutoTickMs]
    /\ UNCHANGED notAuto

NextAuto ==
    \/ PassStart
    \/ \E registered \in BOOLEAN, sendOk \in BOOLEAN,
          rnd \in {RandomIntervalMinMinutes, RandomIntervalMaxMinutes} :
            PassTarget(registered, sendOk, rnd)
    \/ PassEnd
    \/ AutoTick

SpecAuto == InitAuto /\ [][NextAuto]_vars

\* C24: the agent turn of a target is triggered at most once in any
\* cron-matching minute, however many passes run in that minute.
C24_OneTurnPerCronMinute ==
    \A t \in Targets : \A b \in DOMAIN au.turns[t] : au.turns[t][b] <= 1

\* the targets the pass under way found due
DueInPass == {t \in Targets : au.pass.pc = "loop" /\ t < au.pass.k /\ au.pass.next[t].due}

\* C25: with smart throttle on and the last inbound 5 minutes before the
\* pass, a due cron target is skipped with reason active_conversation and no
\* agent turn is triggered for it.
C25_ActiveConversationSkip ==
    \A t \in DueInPass :
        (au.smartEnabled /\ au.pass.nowMs - au.lastInboundAtMs = 5 * MinuteMs)
            => /\ au.pass.next[t].lastRunResult = "skipped"
               /\ au.pass.next[t].lastSkipReason = "active_conversation"
               /\ au.turns[t][cronBucket(au.pass.nowMs)] = 0

\* SpecAt: the same passes over targets with the schedule kind "at", due one
\* timer period after the start
InitAt ==
    /\ InitQuiet
    /\ InitIdleFallback /\ InitIdleTrace /\ InitIdleRoute /\ InitIdlePolicy /\ InitIdleLimit /\ InitIdleAgent /\ InitIdleTick /\ InitIdleReconnect /\ InitIdleClear /\ InitIdleDedup
    /\ \E in \in {i \in AutoInputs : \A t \in Targets : i.tzValid[t]} :
          au = [schedule |-> [kind |-> "at", atMs |-> AutoStartMs + AutoTickMs],
                tzValid |-> in.tzValid, smartEnabled |-> in.smartEnabled,
                lastInboundAtMs |-> in.lastInboundAtMs,
                lastOutboundAtMs |-> in.lastOutboundAtMs,
                now |-> AutoStartMs,
                file |-> [t \in Targets |-> TargetStateInit],
                pass |-> [pc |-> "idle", k |-> 0, nowMs |-> 0, startedAt |-> 0,
                          prev |-> [t \in Targets |-> TargetStateInit],
                          next |-> [t \in Targets |-> TargetStateInit]],
                turns |-> [t \in Targets |->
                             [b \in cronBucket(AutoStartMs)..cronBucket(MaxAutoClock) |-> 0]]]

SpecAt == InitAt /\ [][NextAuto]_vars

\* C34: the state file marks an at-schedule target done only after a pass
\* invoked its agent turn; a pass that found it due and skipped it by the
\* smart throttle leaves it not done.
C34_AtDoneOnlyAfterTurn ==
    \A t \in Targets :
        au.file[t].atDone => \E b \in DOMAIN au.turns[t] : au.turns[t][b] > 0

\* C26: a call short-circuited by a completed record runs no task body,
\* returns deduped and persists a lifecycle line with errorReason
\* idempotent_replay_skipped, whatever the status of the record.
C26_ReplayLineMarked ==
    \A c \in Calls :
        tc[c].deduped =>
            /\ ~tc[c].ran
            /\ tc[c].replayLine # None
            /\ tc[c].replayLine.errorReason = "idempotent_replay_skipped"

\* ------------------------------------------------------------ route round trip
\* SpecRoute: one route string is put through normalizeTarget and the
\* result through parseTarget (routing.ts:25-60).
Strings(S, lo, hi) == UNION {[1..n -> S] : n \in lo..hi}

\* the strings kind:id and guild:id:id SpecRoute starts from
RouteInputs ==
    {[kind |-> k, a |-> a, b |-> <<>>] :
        k \in {"user", "group"}, a \in Strings({"0", "1"}, MinIdLen, MaxIdLen)}
    \cup {[kind |-> "guild", a |-> a, b |-> b] :
            a \in Strings({"G", "g", "1"}, 1, MaxGuildPartLen),
            b \in Strings({"C", "c", "-"}, 1, MaxGuildPartLen)}

notRoute == <<quiet, fbk, tr, au, pol, lim, agt, svc, rc, cl, pm>>

InitRoute ==
    /\ InitQuiet
    /\ InitIdleFallback /\ InitIdleTrace /\ InitIdleAuto /\ InitIdlePolicy /\ InitIdleLimit /\ InitIdleAgent /\ InitIdleTick /\ InitIdleReconnect /\ InitIdleClear /\ InitIdleDedup
    /\ \E r \in RouteInputs :
          rt = [pc |-> "raw", input |-> r, normalized |-> None, parsed |-> None]

\* routing.ts:25-43
RouteNormalize ==
    /\ rt.pc = "raw"
    /\ rt' = [rt EXCEPT !.pc = "normalized", !.normalized = normalizeTarget(rt.input)]
    /\ UNCHANGED notRoute

\* routing.ts:45-60
RouteParse ==
    /\ rt.pc = "normalized"
    /\ rt' = [rt EXCEPT !.pc = "parsed", !.parsed = parseTarget(rt.normalized)]
    /\ UNCHANGED notRoute

NextRoute == RouteNormalize \/ RouteParse

SpecRoute == InitRoute /\ [][NextRoute]_vars

\* C27: for every route r that isValidQQRoute accepts,
\* parseTarget(normalizeTarget(r)).route is r.
C27_RouteRoundTrip ==
    (rt.pc = "parsed" /\ isValidQQRoute(rt.input))
        => (rt.parsed # None /\ rt.parsed.route = rt.input)

\* ------------------------------------------------------------ capability hooks
\* SpecPolicy: deliver sends one payload of NumTextChunks text chunks and
\* NumMediaItems media items on a route with the capabilities
\* readRouteCapabilityPolicy returns. The send queue runs the tasks in turn and
\* swallows a task's error (delivery.ts:80-92).
TextChunkIds == 1..NumTextChunks
MediaItemIds == 1..NumMediaItems
MediaKinds == {"image", "record", "file"}
Capabilities == [sendText : BOOLEAN, sendMedia : BOOLEAN, sendVoice : BOOLEAN]

notPolicy == <<quiet, fbk, tr, au, rt, lim, agt, svc, rc, cl, pm>>

\* the hook of a build that never looks at sendMedia
checkConversationPolicyHookNoMedia(owner, capabilities, stage, action) ==
    IF owner THEN TRUE
    ELSE IF stage = "beforeDispatch" /\ ~capabilities.sendText THEN FALSE
    ELSE IF action = "none" THEN TRUE
    ELSE IF action = "sendText" /\ ~capabilities.sendText THEN FALSE
    ELSE IF action = "sendTTS" /\ ~capabilities.sendVoice THEN FALSE
    ELSE TRUE

\* account-lifecycle.ts:41-59, for a valid route: TRUE when the hook returns,
\* FALSE when it throws
checkConversationPolicyHook(owner, capabilities, stage, action) ==
    IF owner THEN TRUE
    ELSE IF stage = "beforeDispatch" /\ ~capabilities.sendText THEN FALSE
    ELSE IF action = "none" THEN TRUE
    ELSE IF action = "sendText" /\ ~capabilities.sendText THEN FALSE
    ELSE IF action = "sendMedia" /\ ~capabilities.sendMedia THEN FALSE
    ELSE IF action = "sendTTS" /\ ~capabilities.sendVoice THEN FALSE
    ELSE TRUE

\* session-store.ts:138-146
PolicyUsageInit == [sendTextCount |-> 0, sendMediaCount |-> 0, sendVoiceCount |-> 0]

\* the payload, the route and what the transport will do with each text chunk
InitPolicy ==
    /\ InitQuiet
    /\ InitIdleFallback /\ InitIdleTrace /\ InitIdleAuto /\ InitIdleRoute /\ InitIdleLimit /\ InitIdleAgent /\ InitIdleTick /\ InitIdleReconnect /\ InitIdleClear /\ InitIdleDedup
    /\ \E owner \in BOOLEAN, caps \in Capabilities,
          kinds \in [MediaItemIds -> MediaKinds],
          textEnv \in [TextChunkIds -> {"ok", "failed"}] :
          pol = [pc |-> "hook", owner |-> owner, capabilities |-> caps,
                 kinds |-> kinds, textEnv |-> textEnv, i |-> 1, j |-> 1,
                 textSent |-> {}, mediaSent |-> {}, blocked |-> {},
                 usage |-> PolicyUsageInit]

\* part_003:1648-1665: the beforeOutbound hook of the text; deliver rethrows
PolicyTextHook ==
    /\ pol.pc = "hook"
    /\ pol' = [pol EXCEPT !.pc =
                 IF checkConversationPolicyHook(pol.owner, pol.capabilities,
                                                "beforeOutbound", "sendText")
                 THEN "text" ELSE "thrown"]
    /\ UNCHANGED notPolicy

\* text-sender.ts:13-22 with part_003:1667-1678: the queue task of one chunk
PolicyTextTask ==
    /\ pol.pc = "text"
    /\ LET i == pol.i
           ok == pol.textEnv[i] = "ok"
           nextPc == IF i = NumTextChunks THEN "media" ELSE "text"
       IN  pol' = [pol EXCEPT
                     !.pc = nextPc,
                     !.i = i + 1,
                     !.textSent = IF ok THEN @ \cup {i} ELSE @,
                     !.usage.sendTextCount = IF ok THEN @ + 1 ELSE @]
    /\ UNCHANGED notPolicy

\* media-sender.ts:93-202 with part_003:1680-1700: one media item; the path
\* policy may reject it before the queue, the queue task checks the hook first
PolicyMediaTask(how) ==
    /\ pol.pc = "media"
    /\ LET j == pol.j
           kind == pol.kinds[j]
           pass == checkConversationPolicyHook(pol.owner, pol.capabilities,
                                               "beforeOutbound", "sendMedia")
           nextPc == IF j = NumMediaItems THEN "done" ELSE "media"
       IN  IF how = "pathRejected"
           THEN pol' = [pol EXCEPT !.pc = "thrown"]
           ELSE IF ~pass
           THEN pol' = [pol EXCEPT !.pc = nextPc, !.j = j + 1,
                                   !.blocked = @ \cup {j}]
           ELSE IF how = "failed"
           THEN pol' = [pol EXCEPT !.pc = nextPc, !.j = j + 1]
           ELSE pol' = [pol EXCEPT
                          !.pc = nextPc, !.j = j + 1,
                          !.mediaSent = @ \cup {j},
                          !.usage.sendMediaCount = IF kind = "record" THEN @ ELSE @ + 1,
                          !.usage.sendVoiceCount = IF kind = "record" THEN @ + 1 ELSE @]
    /\ UNCHANGED notPolicy

NextPolicy ==
    \/ PolicyTextHook
    \/ PolicyTextTask
    \/ \E how \in {"ok", "failed", "pathRejected"} : PolicyMediaTask(how)

SpecPolicy == InitPolicy /\ [][NextPolicy]_vars

notLimit == <<quiet, fbk, tr, au, rt, pol, agt, svc, rc, cl, pm>>

LimitUsageInit == [dispatchCount |-> 0, sendTextCount |-> 0]

\* usage: the usage file; q: the queue task (n chunks handled, s the stats
\* object bumpRouteUsage read); hd: the handler's bump; sentText: chunks the
\* protocol took
InitLimit ==
    /\ InitQuiet
    /\ InitIdleFallback /\ InitIdleTrace /\ InitIdleAuto /\ InitIdleRoute /\ InitIdlePolicy /\ InitIdleAgent /\ InitIdleTick /\ InitIdleReconnect /\ InitIdleClear /\ InitIdleDedup
    /\ lim = [usage |-> LimitUsageInit,
              q |-> [pc |-> "check", n |-> 0, s |-> LimitUsageInit],
              hd |-> [pc |-> "idle", calls |-> 0, s |-> LimitUsageInit],
              sentText |-> 0]

\* part_008:4-16: TRUE when the check returns, FALSE when it throws
checkRouteUsageQuota(usage, limit) == ~(usage.sendTextCount >= limit)

\* the queue goes on to its next chunk
LimitNextChunk(q) == [q EXCEPT !.pc = "check", !.n = @ + 1]

\* part_003:1515: the quota check of sendTextChunk; a throw ends the task
LimitCheck ==
    /\ lim.q.pc = "check"
    /\ lim.q.n < NumSendUnits
    /\ lim' = [lim EXCEPT !.q = IF checkRouteUsageQuota(lim.usage, MaxSendText)
                                THEN [@ EXCEPT !.pc = "send"]
                                ELSE LimitNextChunk(@)]
    /\ UNCHANGED notLimit

\* part_003:1524-1561 with text-sender.ts:17-20 and part_003:1673: the
\* protocol send; onChunkSent throws before its bump when the dispatch is no
\* longer the route's in-flight (current = FALSE)
LimitSend(ok, current) ==
    /\ lim.q.pc = "send"
    /\ lim' = IF ~ok THEN [lim EXCEPT !.q = LimitNextChunk(@)]
              ELSE [lim EXCEPT !.sentText = @ + 1,
                               !.q = IF current THEN [@ EXCEPT !.pc = "bumpRead"]
                                     ELSE LimitNextChunk(@)]
    /\ UNCHANGED notLimit

\* session-store.ts:171: the queue's bump reads the usage file
LimitBumpRead ==
    /\ lim.q.pc = "bumpRead"
    /\ lim' = [lim EXCEPT !.q = [@ EXCEPT !.pc = "bumpWrite", !.s = lim.usage]]
    /\ UNCHANGED notLimit

\* session-store.ts:173-177: and writes the object it read, increased
LimitBumpWrite ==
    /\ lim.q.pc = "bumpWrite"
    /\ lim' = [lim EXCEPT !.usage = [lim.q.s EXCEPT !.sendTextCount = @ + 1],
                          !.q = LimitNextChunk(@)]
    /\ UNCHANGED notLimit

\* part_003:2076 with session-store.ts:171: the handler's bump reads
LimitHandlerRead ==
    /\ lim.hd.pc = "idle"
    /\ lim.hd.calls < NumDispatchBumps
    /\ lim' = [lim EXCEPT !.hd = [pc |-> "read", calls |-> @.calls + 1, s |-> lim.usage]]
    /\ UNCHANGED notLimit

\* session-store.ts:172-177: and writes
LimitHandlerWrite ==
    /\ lim.hd.pc = "read"
    /\ lim' = [lim EXCEPT !.usage = [lim.hd.s EXCEPT !.dispatchCount = @ + 1],
                          !.hd.pc = "idle"]
    /\ UNCHANGED notLimit

NextLimit ==
    \/ LimitCheck
    \/ \E ok \in BOOLEAN, current \in BOOLEAN : LimitSend(ok, current)
    \/ LimitBumpRead
    \/ LimitBumpWrite
    \/ LimitHandlerRead
    \/ LimitHandlerWrite

SpecLimit == InitLimit /\ [][NextLimit]_vars

\* C32: on a non-owner route with limit L for text, the number of text
\* units the protocol took never exceeds L.
C32_SentWithinLimit == lim.sentText <= MaxSendText

\* ------------------------------------------------------------ resident agents
\* SpecAgent: one valid route and one owner setting (OPENCLAW_QQ_OWNER_ID;
\* <<>> when unset); the channel plugin and the automation manager each
\* resolve the route's agent id, no route metadata file existing.
notAgent == <<quiet, fbk, tr, au, rt, pol, lim, svc, rc, cl, pm>>

OwnerIds == {<<>>, U10001}

\* an agent id: main, or qq-<kind>-<a>[-<b>]
MainAgent == [kind |-> "main", a |-> <<>>, b |-> <<>>]
ResidentAgent(r) == [kind |-> r.kind, a |-> r.a, b |-> r.b]

\* routing.ts:21-23 getOwnerRoute
getOwnerRoute(ownerQq) ==
    IF ownerQq # <<>> THEN [kind |-> "user", a |-> ownerQq, b |-> <<>>] ELSE None

\* routing.ts:66-70
isOwnerPrivateRoute(route, ownerQq) ==
    getOwnerRoute(ownerQq) # None /\ route = getOwnerRoute(ownerQq)

\* routing.ts:76-86 routeToResidentAgentId; None when it throws
routeToResidentAgentId(route, ownerQq) ==
    IF isOwnerPrivateRoute(route, ownerQq) THEN MainAgent
    ELSE IF route.kind \in {"user", "group"} /\ IsDigitString(route.a) THEN ResidentAgent(route)
    ELSE IF route.kind = "guild" /\ route.a # <<>> /\ route.b # <<>> THEN ResidentAgent(route)
    ELSE None

\* service.ts:7-8: the template string of OWNER_ROUTE holds no id
OWNER_ROUTE(ownerQq) ==
    IF ownerQq # <<>> THEN [kind |-> "user", a |-> <<>>, b |-> <<>>] ELSE None

\* service.ts:187-196 fallbackAgentIdByRoute
fallbackAgentIdByRoute(route, ownerQq) ==
    IF route = OWNER_ROUTE(ownerQq) THEN MainAgent
    ELSE IF route.kind \in {"user", "group"} /\ Len(route.a) >= 5
            /\ \A i \in 1..Len(route.a) : route.a[i] \in Digits
    THEN ResidentAgent(route)
    ELSE IF route.kind = "guild" /\ route.a # <<>> /\ route.b # <<>> THEN ResidentAgent(route)
    ELSE MainAgent

InitAgent ==
    /\ InitQuiet
    /\ InitIdleFallback /\ InitIdleTrace /\ InitIdleAuto /\ InitIdleRoute /\ InitIdlePolicy /\ InitIdleLimit /\ InitIdleTick /\ InitIdleReconnect /\ InitIdleClear /\ InitIdleDedup
    /\ \E r \in {x \in RouteInputs : isValidQQRoute(x)}, o \in OwnerIds :
          agt = [route |-> r, ownerQq |-> o, channel |-> None, scheduler |-> None]

\* routing.ts:76-86: the channel plugin's resident agent id
AgentChannelResolve ==
    /\ agt.channel = None
    /\ agt' = [agt EXCEPT !.channel = routeToResidentAgentId(agt.route, agt.ownerQq)]
    /\ UNCHANGED notAgent

\* service.ts:198-209 resolveAgentId: both agent.json candidates are missing
\* (readJson gives null), so the fallback decides
AgentSchedulerResolve ==
    /\ agt.scheduler = None
    /\ agt' = [agt EXCEPT !.scheduler = fallbackAgentIdByRoute(agt.route, agt.ownerQq)]
    /\ UNCHANGED notAgent

NextAgent == AgentChannelResolve \/ AgentSchedulerResolve

SpecAgent == InitAgent /\ [][NextAgent]_vars

\* C35: for every valid route the agent id the automation scheduler resolves
\* without a metadata file equals the channel plugin's resident agent id,
\* the owner's private route giving main on both sides.
C35_SameResidentAgent ==
    (agt.channel # None /\ agt.scheduler # None) => agt.channel = agt.scheduler

\* ------------------------------------------------------------ reconcile timer
\* SpecTick: the service of createQqAutomationManagerService
\* (service.ts:720-761): start, the interval timer, stop, and the passes tick
\* starts. phase: "idle" (no timer), "starting" (start awaits its own tick),
\* "timing" (setInterval armed); running: the guard; active: reconcileOnce
\* calls awaited; ticks / ignored / ended / failed: calls of tick, those that
\* returned at the guard, passes that ended, those that ended in the catch.
notTick == <<quiet, fbk, tr, au, rt, pol, lim, agt, rc, cl, pm>>

InitTick ==
    /\ InitQuiet
    /\ InitIdleFallback /\ InitIdleTrace /\ InitIdleAuto /\ InitIdleRoute /\ InitIdlePolicy /\ InitIdleLimit /\ InitIdleAgent /\ InitIdleReconnect /\ InitIdleClear /\ InitIdleDedup
    /\ svc = [phase |-> "idle", running |-> FALSE, active |-> 0, startup |-> FALSE,
              ticks |-> 0, ignored |-> 0, ended |-> 0, failed |-> 0]

\* a tick that is never turned away
tickGuardNone(running) == FALSE

\* service.ts:724: `if (running) return`
tickGuard(running) == running

\* service.ts:723-730: tick up to its first await. cfgOk = FALSE: loadConfig
\* or resolveWorkspaceRoot throws, and catch and finally run before tick
\* returns
tick(s, cfgOk) ==
    LET t == [s EXCEPT !.ticks = @ + 1]
    IN IF tickGuard(s.running) THEN [t EXCEPT !.ignored = @ + 1]
       ELSE IF ~cfgOk THEN [t EXCEPT !.running = FALSE, !.ended = @ + 1, !.failed = @ + 1]
       ELSE [t EXCEPT !.running = TRUE, !.active = @ + 1]

\* service.ts:739-751 start: the startup tick is awaited, then the timer set
SvcStart(reconcileOnStartup, cfgOk) ==
    /\ svc.phase = "idle"
    /\ svc.ticks < MaxTicks
    /\ svc' = IF reconcileOnStartup
              THEN LET t == tick(svc, cfgOk)
                   IN IF t.active > svc.active
                      THEN [t EXCEPT !.phase = "starting", !.startup = TRUE]
                      ELSE [t EXCEPT !.phase = "timing"]
              ELSE [svc EXCEPT !.phase = "timing"]
    /\ UNCHANGED notTick

\* service.ts:747-749: the interval fires
SvcTimer(cfgOk) ==
    /\ svc.phase = "timing"
    /\ svc.ticks < MaxTicks
    /\ svc' = tick(svc, cfgOk)
    /\ UNCHANGED notTick

\* service.ts:730-735: reconcileOnce settles (ok: resolved); finally releases
\* the guard; a start waiting for this tick arms the timer
SvcPassEnd(ok) ==
    /\ svc.active > 0
    /\ svc' = [svc EXCEPT !.active = @ - 1, !.running = FALSE,
                          !.ended = @ + 1,
                          !.failed = IF ok THEN @ ELSE @ + 1,
                          !.startup = FALSE,
                          !.phase = IF svc.startup /\ svc.active = 1 THEN "timing" ELSE @]
    /\ UNCHANGED notTick

\* service.ts:753-759 stop: the timer is cleared, a pass under way goes on
SvcStop ==
    /\ svc.phase = "timing"
    /\ svc' = [svc EXCEPT !.phase = "idle"]
    /\ UNCHANGED notTick

NextTick ==
    \/ \E reconcileOnStartup \in BOOLEAN, cfgOk \in BOOLEAN : SvcStart(reconcileOnStartup, cfgOk)
    \/ \E cfgOk \in BOOLEAN : SvcTimer(cfgOk)
    \/ \E ok \in BOOLEAN : SvcPassEnd(ok)
    \/ SvcStop

SpecTick == InitTick /\ [][NextTick]_vars

\* C36: at most one reconcile pass runs at a time; the guard is held
\* exactly while a pass runs, so a tick during a pass starts none and a
\* tick after a pass, ended normally or with an error, is not turned away.
C36_OnePassAtATime ==
    /\ svc.active <= 1
    /\ svc.running <=> svc.active = 1

\* a tick was turned away during a pass, a pass failed, and a later tick
\* started the pass now running
C36_Witness ==
    /\ svc.ignored > 0
    /\ svc.failed > 0
    /\ svc.active = 1

\* ------------------------------------------------------------ reconnect
\* SpecReconnect: OneBotClient (client.ts) after its first connect() call.
\* ws: "none" (null), "connecting" or "open"; timer: the delay of the
\* pending reconnect timer, 0 for none; tries: connect() calls made to
\* re-establish the socket since it was last open.
notReconnect == <<quiet, fbk, tr, au, rt, pol, lim, agt, svc, cl, pm>>

\* client.ts:15
maxReconnectDelay == 60000
\* client.ts:148
ReconnectBaseMs == 1000

RECURSIVE Pow2(_)
Pow2(n) == IF n = 0 THEN 1 ELSE 2 * Pow2(n - 1)

\* client.ts:148
reconnectDelay(reconnectAttempts) ==
    IF ReconnectBaseMs * Pow2(reconnectAttempts) < maxReconnectDelay
    THEN ReconnectBaseMs * Pow2(reconnectAttempts) ELSE maxReconnectDelay

InitReconnect ==
    /\ InitQuiet
    /\ InitIdleFallback /\ InitIdleTrace /\ InitIdleAuto /\ InitIdleRoute /\ InitIdlePolicy /\ InitIdleLimit /\ InitIdleAgent /\ InitIdleTick /\ InitIdleClear /\ InitIdleDedup
    /\ rc = [ws |-> "connecting", reconnectAttempts |-> 0, timer |-> 0, tries |-> 0]

\* client.ts:49-58: the socket opens
RcOpen ==
    /\ rc.ws = "connecting"
    /\ rc' = [rc EXCEPT !.ws = "open", !.reconnectAttempts = 0, !.tries = 0]
    /\ UNCHANGED notReconnect

\* client.ts:73-84, 132-135 and 139-157: close, error or heartbeat
\* hard-timeout: handleDisconnect cleans up and schedules the reconnect
RcDisconnect ==
    /\ rc.ws \in {"connecting", "open"}
    /\ rc' = [rc EXCEPT !.ws = "none", !.timer = reconnectDelay(rc.reconnectAttempts)]
    /\ UNCHANGED notReconnect

\* client.ts:153-156 with 37-48: the reconnect timer fires
RcTimer ==
    /\ rc.timer > 0
    /\ rc.tries < MaxConnects
    /\ rc' = [rc EXCEPT !.reconnectAttempts = @ + 1, !.tries = @ + 1, !.timer = 0,
                        !.ws = "connecting"]
    /\ UNCHANGED notReconnect

\* client.ts:324-345 with 37-48 and 91-95: waitUntilConnected finds no
\* socket and calls connect(), whose cleanup clears the reconnect timer
RcWaitUntilConnected ==
    /\ rc.ws = "none"
    /\ rc.tries < MaxConnects
    /\ rc' = [rc EXCEPT !.tries = @ + 1, !.timer = 0, !.ws = "connecting"]
    /\ UNCHANGED notReconnect

NextReconnect == RcOpen \/ RcDisconnect \/ RcTimer \/ RcWaitUntilConnected

SpecReconnect == InitReconnect /\ [][NextReconnect]_vars

\* C38: the delay of a scheduled reconnect is min(1000 ms * 2^k, 60 s) with k
\* the number of consecutive reconnect attempts since the last successful
\* connect.
C38_BackoffDelay ==
    rc.timer > 0 =>
        rc.timer = (IF ReconnectBaseMs * Pow2(rc.tries) < maxReconnectDelay
                    THEN ReconnectBaseMs * Pow2(rc.tries) ELSE maxReconnectDelay)

\* ------------------------------------------------------------ clear in-flight
\* SpecClear: clearRouteInFlight(route, d) called once on an in-flight map
\* over Routes; d = 0 stands for a missing or empty dispatchId.
notClear == <<quiet, fbk, tr, au, rt, pol, lim, agt, svc, rc, pm>>

InFlightEntries ==
    {None} \cup {[dispatchId |-> d, msgId |-> m] : d \in 1..NumDispatchIds, m \in {1}}

\* part_007:74-80 clearRouteInFlight: the value returned (Map.delete returns
\* whether the key was present)
clearRouteInFlightResult(map, r, did) ==
    IF did = 0 THEN map[r] # None
    ELSE IF map[r] = None \/ map[r].dispatchId # did THEN FALSE
    ELSE TRUE

InitClear ==
    /\ InitQuiet
    /\ InitIdleFallback /\ InitIdleTrace /\ InitIdleAuto /\ InitIdleRoute /\ InitIdlePolicy /\ InitIdleLimit /\ InitIdleAgent /\ InitIdleTick /\ InitIdleReconnect /\ InitIdleDedup
    /\ \E map \in [Routes -> InFlightEntries], r \in Routes, d \in 0..NumDispatchIds :
          cl = [before |-> map, route |-> r, d |-> d, called |-> FALSE,
                after |-> map, result |-> FALSE]

\* part_007:74-80
ClearCall ==
    /\ ~cl.called
    /\ cl' = [cl EXCEPT !.called = TRUE,
                        !.after = clearRouteInFlight(cl.before, cl.route, cl.d),
                        !.result = clearRouteInFlightResult(cl.before, cl.route, cl.d)]
    /\ UNCHANGED notClear

NextClear == ClearCall

SpecClear == InitClear /\ [][NextClear]_vars

\* C39: clearRouteInFlight(route, d) removes the route's entry and returns
\* true exactly when the current entry has dispatchId d; with no entry,
\* another id or a missing d it removes nothing and returns false.
C39_ClearOnlyOnMatch ==
    cl.called =>
        LET cur == cl.before[cl.route]
            match == cl.d # 0 /\ cur # None /\ cur.dispatchId = cl.d
        IN IF match
           THEN cl.result /\ cl.after = [cl.before EXCEPT ![cl.route] = None]
           ELSE ~cl.result /\ cl.after = cl.before

\* ------------------------------------------------------------ inbound dedup
\* SpecDedup: the processedMsgIds set of one account (part_003:1119) under
\* inbound message events and the cleanup interval. The keys the set holds
\* are numbered in the order of their arrival since the last clear.
notDedup == <<quiet, fbk, tr, au, rt, pol, lim, agt, svc, rc, cl>>

\* part_003:1121
ProcessedMsgIdsLimit == 1000

InitDedup ==
    /\ InitQuiet
    /\ InitIdleFallback /\ InitIdleTrace /\ InitIdleAuto /\ InitIdleRoute /\ InitIdlePolicy /\ InitIdleLimit /\ InitIdleAgent /\ InitIdleTick /\ InitIdleReconnect /\ InitIdleClear
    /\ pm = [processedMsgIds |-> {}, clears |-> 0]

\* part_003:1174-1185: a message event with enableDeduplication on and a
\* message_id; a key the set holds ends the handler, a new one is added
DedupInbound(key) ==
    /\ key <= MaxMsgKeys
    /\ pm' = IF key \in pm.processedMsgIds THEN pm
             ELSE [pm EXCEPT !.processedMsgIds = @ \cup {key}]
    /\ UNCHANGED notDedup

\* part_003:1120-1122: the cleanup interval fires
DedupCleanup ==
    /\ pm' = IF Cardinality(pm.processedMsgIds) > ProcessedMsgIdsLimit
             THEN [pm EXCEPT !.processedMsgIds = {}, !.clears = 1]
             ELSE pm
    /\ UNCHANGED notDedup

NextDedup ==
    \/ \E key \in 1..(Cardinality(pm.processedMsgIds) + 1) : DedupInbound(key)
    \/ DedupCleanup

SpecDedup == InitDedup /\ [][NextDedup]_vars

\* C40: the processedMsgIds set of an account never holds more than 1000
\* entries.
C40_DedupSetBounded == Cardinality(pm.processedMsgIds) <= ProcessedMsgIdsLimit

====
